---------------------------- MODULE Spec2Model ----------------------------
(***************************************************************************)
(* Host-side orchestration core of GPUSPH (GPUSPH.cc): the orchestrator    *)
(* thread (GPUSPH::initialize, GPUSPH::runSimulation and the command       *)
(* sequences it issues through GPUSPH::doCommand), the worker threads      *)
(* (one per device) and the Synchronizer they rendezvous on.               *)
(*                                                                         *)
(* The orchestrator is translated from GPUSPH.cc.  The Synchronizer and    *)
(* the GPUWorker thread body are not part of the available sources; they   *)
(* are modelled from the specification (sections 4.1, 4.2, 5, 6) and from  *)
(* the barrier names the orchestrator's comments give to each rendezvous.  *)
(***************************************************************************)
EXTENDS Integers, Sequences, FiniteSets, TLC

(***************************************************************************)
(* Bounds of the model.                                                    *)
(***************************************************************************)
\* largest number of devices (worker threads) of a run
MaxDevices == 2
\* how many times, in one run, a worker may report a changed particle count
MaxCountChanges == 1
\* largest number of nodes (processes) of a run
MaxNodes == 2
\* largest number of particles handed to the initial partition
MaxParticles == 4
\* number of grid cells of the device map handed to the initial partition
NumCells == 3
\* largest timestep a device may ask for
MaxDt == 1
\* roll calls made when rollCallParticles is explored on its own
MaxRollCalls == 2

(***************************************************************************)
(* Participants of the Synchronizer: the orchestrator and the workers.     *)
(***************************************************************************)
Main == 0

Workers(c) == 1 .. c.devices

Participants(c) == {Main} \cup Workers(c)

\* a Synchronizer built for the workers only
SyncWithoutOrchestrator(c) == c.devices

\* initialize(): new Synchronizer(gdata->devices + 1)
SyncParticipants(c) == c.devices + 1

(***************************************************************************)
(* Run configuration: the problem's SimParams, the framework and the       *)
(* command-line options the orchestrator reads, as seen by the process of  *)
(* node mpi_rank.                                                          *)
(***************************************************************************)
BaseConfig ==
  [ devices          |-> 1,       \* gdata->devices
    mpi_nodes        |-> 1,       \* gdata->mpi_nodes
    mpi_rank         |-> 0,       \* gdata->mpi_rank
    sa_boundary      |-> FALSE,   \* simparams()->boundarytype == SA_BOUNDARY
    bcEngine         |-> TRUE,    \* simframework->getBCEngine() != NULL
    inlet_outlet     |-> FALSE,   \* simflags & ENABLE_INLET_OUTLET
    water_depth      |-> FALSE,   \* simflags & ENABLE_WATER_DEPTH
    density_sum      |-> FALSE,   \* simflags & ENABLE_DENSITY_SUM
    gcallback        |-> FALSE,   \* simparams()->gcallback
    grenier          |-> FALSE,   \* sph_formulation == SPH_GRENIER
    visctype         |-> "ARTVISC", \* simparams()->visctype
    internal_energy  |-> FALSE,   \* simflags & ENABLE_INTERNAL_ENERGY
    debug_neibs      |-> FALSE,   \* gdata->debug.neibs
    debug_forces     |-> FALSE,   \* gdata->debug.forces
    inspect_preforce |-> FALSE,   \* gdata->debug.inspect_preforce
    striping         |-> FALSE,   \* clOptions->striping
    numbodies        |-> 0,       \* simparams()->numbodies
    numforcesbodies  |-> 0,       \* simparams()->numforcesbodies
    filters          |-> << >>,   \* simframework->getFilterFreqList()
    postprocess      |-> << >>,   \* simframework->getPostProcEngines()
    resumed          |-> FALSE,   \* !clOptions->resume_fname.empty()
    no_leak_warning  |-> FALSE,   \* clOptions->no_leak_warning
    buildneibsfreq   |-> 1,       \* simparams()->buildneibsfreq
    maxiter          |-> 1,       \* clOptions->maxiter
    tend             |-> 9,       \* simparams()->tend, for problem->finished(t)
    writer_due       |-> FALSE,   \* Writer::NeedWrite(t) names some writer at every t
    problem_write    |-> FALSE,   \* problem->need_write(t)
    nosave           |-> FALSE,   \* clOptions->nosave
    save_signal      |-> FALSE,   \* a request to save arrives once, at any moment of the run
    dt               |-> 1,       \* simparams()->dt
    dtadapt          |-> FALSE,   \* simflags & ENABLE_DTADAPT
    t0               |-> 0,       \* gdata->t at the start of the run
    iterations0      |-> 0,       \* gdata->iterations at the start of the run
    problemInitOk    |-> TRUE,    \* problem->initialize()
    gridOk           |-> TRUE,    \* number of grid cells <= MAX_CELLS
    hashes           |-> [p \in 0 .. 0 |-> 0],  \* BUFFER_HASH after calcHashHost: the cell of each particle
    deviceMap        |-> [cell \in 0 .. 0 |-> 0], \* problem->fillDeviceMap(): cell -> 0 .. totDevices - 1
    spare            |-> 1 ]      \* allocatedParticles - totParticles at the start

\* the base configuration with the fields of d replaced
With(c, d) == [f \in DOMAIN c |-> IF f \in DOMAIN d THEN d[f] ELSE c[f]]

\* a MULTI_DEVICE that holds of a single device too
MultiDeviceAlways(c) == TRUE

MULTI_DEVICE(c) == c.devices * c.mpi_nodes > 1

MULTI_GPU(c) == c.devices > 1

MULTI_NODE(c) == c.mpi_nodes > 1

SINGLE_NODE(c) == ~ MULTI_NODE(c)

(***************************************************************************)
(* Command records.  The flag argument is the set of the flag names or-ed  *)
(* together; the float argument is a name.                                 *)
(***************************************************************************)
NO_FLAGS == {}

NAN == "NAN"

INTEGRATOR_STEP_1 == {"INTEGRATOR_STEP_1"}

INTEGRATOR_STEP_2 == {"INTEGRATOR_STEP_2"}

INITIALIZATION_STEP == {"INITIALIZATION_STEP"}

ALL_INTEGRATION_STEPS == {"INTEGRATOR_STEP_1", "INTEGRATOR_STEP_2"}

\* a call doCommand(cmd, flags, arg) still to be made
Cmd(c, f, a) == [k |-> "cmd", cmd |-> c, flags |-> f, arg |-> a]

\* a piece of host code of the orchestrator between two doCommand calls
Host(o, v) == [k |-> "host", op |-> o, val |-> v]

RECURSIVE Flatten(_)
Flatten(ss) == IF ss = << >> THEN << >> ELSE Head(ss) \o Flatten(Tail(ss))

When(b, s) == IF b THEN s ELSE << >>


(***************************************************************************)
(* The command sequences of GPUSPH.cc, as the list of the doCommand calls  *)
(* and of the state-changing host code between them, in program order.     *)
(***************************************************************************)

\* GPUSPH::buildNeibList
BuildNeibList(c) ==
  << Host("only_internal", FALSE),
     Cmd("SWAP_BUFFERS", {"BUFFER_POS"}, NAN),
     Cmd("CALCHASH", NO_FLAGS, NAN),
     Cmd("SWAP_BUFFERS", {"BUFFER_POS", "BUFFER_INFO"}, NAN),
     Cmd("SORT", NO_FLAGS, NAN),
     Cmd("REORDER", NO_FLAGS, NAN),
     Cmd("DOWNLOAD_NEWNUMPARTS", NO_FLAGS, NAN),
     Cmd("SWAP_BUFFERS", {"MULTI_BUFFERED"}, NAN) >>
  \o (IF MULTI_DEVICE(c)
      THEN << Cmd("DUMP_CELLS", NO_FLAGS, NAN),
              Cmd("UPDATE_SEGMENTS", NO_FLAGS, NAN),
              Host("updateArrayIndices", FALSE),
              Cmd("CROP", NO_FLAGS, NAN),
              Cmd("APPEND_EXTERNAL", {"IMPORT_BUFFERS"}, NAN) >>
           \o When(c.inlet_outlet, << Cmd("UPLOAD_NEWNUMPARTS", NO_FLAGS, NAN) >>)
      ELSE << Host("updateArrayIndices", FALSE) >>)
  \o << Host("only_internal", TRUE),
        Cmd("BUILDNEIBS", NO_FLAGS, NAN) >>
  \o When(MULTI_DEVICE(c) /\ c.sa_boundary,
          << Cmd("UPDATE_EXTERNAL", {"BUFFER_VERTPOS"}, NAN) >>)

\* the buffers swapped at the begin and at the end of the SA initialisation step
SaInitSwapBuffers ==
  {"BUFFER_VEL", "BUFFER_TKE", "BUFFER_EPSILON", "BUFFER_POS", "BUFFER_EULERVEL",
   "BUFFER_GRADGAMMA", "BUFFER_VERTICES"}

\* GPUSPH::saBoundaryConditions, once the boundary-conditions engine is known to be loaded
SaBoundaryCommands(c, cFlag) ==
  LET init == "INITIALIZATION_STEP" \in cFlag
      step2 == "INTEGRATOR_STEP_2" \in cFlag
      md == MULTI_DEVICE(c)
  IN
  When(init,
       << Cmd("SWAP_BUFFERS", {"BUFFER_INFO"}, NAN),
          Cmd("IDENTIFY_CORNER_VERTICES", NO_FLAGS, NAN) >>
       \o When(md, << Cmd("UPDATE_EXTERNAL", {"BUFFER_INFO", "DBLBUFFER_WRITE"}, NAN) >>)
       \o << Cmd("SWAP_BUFFERS", {"BUFFER_INFO"}, NAN) >>
       \o When(c.inlet_outlet,
               << Cmd("INIT_IO_MASS_VERTEX_COUNT", NO_FLAGS, NAN) >>
               \o When(md, << Cmd("UPDATE_EXTERNAL", {"BUFFER_FORCES"}, NAN) >>)
               \o << Cmd("INIT_IO_MASS", NO_FLAGS, NAN) >>
               \o When(md, << Cmd("UPDATE_EXTERNAL", {"BUFFER_POS", "DBLBUFFER_WRITE"}, NAN) >>)
               \o << Cmd("SWAP_BUFFERS", {"BUFFER_POS"}, NAN) >>)
       \o << Cmd("SWAP_BUFFERS", SaInitSwapBuffers, NAN) >>)
  \o When(c.inlet_outlet,
          When(md /\ c.water_depth,
               << Cmd("DOWNLOAD_IOWATERDEPTH", NO_FLAGS, NAN),
                  Cmd("UPLOAD_IOWATERDEPTH", NO_FLAGS, NAN) >>)
          \o << Host("only_internal", FALSE),
                Cmd("SWAP_BUFFERS", {"BUFFER_POS"}, NAN),
                Cmd("IMPOSE_OPEN_BOUNDARY_CONDITION", NO_FLAGS, NAN),
                Cmd("SWAP_BUFFERS", {"BUFFER_POS"}, NAN) >>)
  \o << Host("only_internal", TRUE) >>
  \o When(~ init, << Cmd("SWAP_BUFFERS", {"BUFFER_VERTICES"}, NAN) >>)
  \o << Cmd("SA_CALC_SEGMENT_BOUNDARY_CONDITIONS", cFlag, NAN) >>
  \o When(md, << Cmd("UPDATE_EXTERNAL",
                     {"POST_SA_SEGMENT_UPDATE_BUFFERS", "DBLBUFFER_WRITE"}, NAN) >>)
  \o << Cmd("SA_CALC_VERTEX_BOUNDARY_CONDITIONS", cFlag, NAN) >>
  \o When(md, << Cmd("UPDATE_EXTERNAL",
                     {"POST_SA_VERTEX_UPDATE_BUFFERS", "DBLBUFFER_WRITE"}, NAN) >>)
  \o When(c.inlet_outlet /\ step2,
          << Cmd("DISABLE_OUTGOING_PARTS", NO_FLAGS, NAN) >>
          \o When(md, << Cmd("UPDATE_EXTERNAL",
                             {"BUFFER_POS", "BUFFER_VERTICES", "DBLBUFFER_WRITE"}, NAN) >>))
  \o When(init,
          << Cmd("SWAP_BUFFERS", SaInitSwapBuffers, NAN) >>
          \o When(~ c.resumed,
                  << Cmd("SWAP_BUFFERS", {"BUFFER_BOUNDELEMENTS"}, NAN),
                     Cmd("INIT_GAMMA", NO_FLAGS, NAN) >>
                  \o When(md, << Cmd("UPDATE_EXTERNAL",
                                     {"BUFFER_GRADGAMMA", "BUFFER_BOUNDELEMENTS",
                                      "DBLBUFFER_WRITE"}, NAN) >>)
                  \o << Cmd("SWAP_BUFFERS",
                            {"BUFFER_GRADGAMMA", "BUFFER_BOUNDELEMENTS"}, NAN) >>))

\* GPUSPH::saBoundaryConditions: throws when no boundary-conditions engine is loaded
SaBoundaryConditions(c, cFlag) ==
  IF ~ c.bcEngine
  THEN << Host("throw", "no boundary conditions engine loaded") >>
  ELSE SaBoundaryCommands(c, cFlag)

\* GPUSPH::move_bodies
MoveBodies(c, step) ==
  When(c.numbodies > 0,
       When(c.numforcesbodies > 0, << Cmd("REDUCE_BODIES_FORCES", NO_FLAGS, NAN) >>)
       \o << Cmd("UPLOAD_OBJECTS_MATRICES", NO_FLAGS, NAN),
             Cmd("UPLOAD_OBJECTS_VELOCITIES", NO_FLAGS, NAN) >>
       \o When(c.numforcesbodies > 0, << Cmd("FORCES_UPLOAD_OBJECTS_CG", NO_FLAGS, NAN) >>))

\* saveParticles: the buffers to be dumped before the post-processing engines add theirs
SaveBuffers(c) ==
  {"BUFFER_POS", "BUFFER_VEL", "BUFFER_INFO", "BUFFER_HASH", "DBLBUFFER_READ"}
  \cup (IF c.debug_neibs THEN {"BUFFER_NEIBSLIST"} ELSE {})
  \cup (IF c.debug_forces THEN {"BUFFER_FORCES"} ELSE {})
  \cup (IF c.internal_energy THEN {"BUFFER_INTERNAL_ENERGY"} ELSE {})
  \cup (IF c.sa_boundary
        THEN {"BUFFER_GRADGAMMA", "BUFFER_VERTICES", "BUFFER_BOUNDELEMENTS"} ELSE {})
  \cup (IF c.grenier THEN {"BUFFER_VOLUME", "BUFFER_SIGMA"} ELSE {})
  \cup (IF c.visctype = "KEPSVISC"
        THEN {"BUFFER_TKE", "BUFFER_EPSILON", "BUFFER_TURBVISC"} ELSE {})
  \cup (IF c.visctype = "SPSVISC" THEN {"BUFFER_SPS_TURBVISC"} ELSE {})
  \cup (IF c.inlet_outlet \/ c.visctype = "KEPSVISC" THEN {"BUFFER_EULERVEL"} ELSE {})

RECURSIVE PostProcessBuffers(_)
PostProcessBuffers(pp) ==
  IF pp = << >> THEN {}
  ELSE Head(pp).updated \cup Head(pp).written \cup PostProcessBuffers(Tail(pp))

\* GPUSPH::saveParticles
SaveParticles(c, pp, write_flags) ==
  Flatten([i \in 1 .. Len(pp) |->
            << Host("only_internal", TRUE),
               Cmd("POSTPROCESS", NO_FLAGS, pp[i].name),
               Cmd("SWAP_BUFFERS", pp[i].written, NAN) >>])
  \o << Cmd("DUMP", SaveBuffers(c) \cup PostProcessBuffers(pp), NAN),
        Host("doWrite", write_flags) >>

\* runSimulation, before the loop: the initialisation run by the workers
PreLoop(c) ==
  When(c.sa_boundary,
       BuildNeibList(c) \o SaBoundaryConditions(c, INITIALIZATION_STEP))

\* runSimulation: the enabled filters that are due at this iteration
RunFilters(c, its) ==
  When(its > 0,
       Flatten([i \in 1 .. Len(c.filters) |->
                 When(its % c.filters[i].freq = 0,
                      << Host("only_internal", TRUE),
                         Cmd("FILTER", NO_FLAGS, c.filters[i].name) >>
                      \o When(MULTI_DEVICE(c),
                              << Cmd("UPDATE_EXTERNAL", {"BUFFER_VEL", "DBLBUFFER_WRITE"}, NAN) >>)
                      \o << Cmd("SWAP_BUFFERS", {"BUFFER_VEL"}, NAN) >>)]))

\* runSimulation: Grenier's density and sigma, before each forces computation
GrenierDensity(c, stepFlag) ==
  When(c.grenier,
       << Cmd("SWAP_BUFFERS", {"BUFFER_VEL"}, NAN),
          Host("only_internal", TRUE),
          Cmd("COMPUTE_DENSITY", stepFlag, NAN) >>
       \o When(MULTI_DEVICE(c),
               << Cmd("UPDATE_EXTERNAL",
                      {"BUFFER_SIGMA", "BUFFER_VEL", "DBLBUFFER_WRITE"}, NAN) >>)
       \o << Cmd("SWAP_BUFFERS", {"BUFFER_VEL"}, NAN) >>)

\* runSimulation: SPS viscosity, before each forces computation
SpsViscosity(c, stepFlag) ==
  When(c.visctype = "SPSVISC",
       << Host("only_internal", TRUE),
          Cmd("SPS", stepFlag, NAN) >>
       \o When(MULTI_DEVICE(c), << Cmd("UPDATE_EXTERNAL", {"BUFFER_TAU"}, NAN) >>))

\* a forces computation that leaves only_internal as it finds it
ComputeForcesKeepingFlag(c, stepFlag) ==
  (IF c.striping /\ MULTI_DEVICE(c)
   THEN << Cmd("FORCES_ENQUEUE", stepFlag, NAN) >>
   ELSE << Cmd("FORCES_SYNC", stepFlag, NAN) >>)
  \o When(MULTI_DEVICE(c),
          << Cmd("UPDATE_EXTERNAL", {"POST_FORCES_UPDATE_BUFFERS", "DBLBUFFER_WRITE"}, NAN) >>)
  \o When(c.striping /\ MULTI_DEVICE(c), << Cmd("FORCES_COMPLETE", stepFlag, NAN) >>)

\* a forces computation that waits for the kernels before updating the external particles
ComputeForcesCompletingFirst(c, stepFlag) ==
  << Host("only_internal", TRUE) >>
  \o (IF c.striping /\ MULTI_DEVICE(c)
      THEN << Cmd("FORCES_ENQUEUE", stepFlag, NAN) >>
      ELSE << Cmd("FORCES_SYNC", stepFlag, NAN) >>)
  \o When(c.striping /\ MULTI_DEVICE(c), << Cmd("FORCES_COMPLETE", stepFlag, NAN) >>)
  \o When(MULTI_DEVICE(c),
          << Cmd("UPDATE_EXTERNAL", {"POST_FORCES_UPDATE_BUFFERS", "DBLBUFFER_WRITE"}, NAN) >>)

\* runSimulation: the forces computation of one integrator step
ComputeForces(c, stepFlag) ==
  << Host("only_internal", TRUE) >>
  \o (IF c.striping /\ MULTI_DEVICE(c)
      THEN << Cmd("FORCES_ENQUEUE", stepFlag, NAN) >>
      ELSE << Cmd("FORCES_SYNC", stepFlag, NAN) >>)
  \o When(MULTI_DEVICE(c),
          << Cmd("UPDATE_EXTERNAL", {"POST_FORCES_UPDATE_BUFFERS", "DBLBUFFER_WRITE"}, NAN) >>)
  \o When(c.striping /\ MULTI_DEVICE(c), << Cmd("FORCES_COMPLETE", stepFlag, NAN) >>)

\* runSimulation: upload of the variable gravity
VariableGravity(c) ==
  When(c.gcallback, << Cmd("UPLOAD_GRAVITY", NO_FLAGS, NAN) >>)

\* the buffers updated on the other devices after EULER with summation density
DensitySumBuffers ==
  {"BUFFER_POS", "BUFFER_VEL", "BUFFER_EULERVEL", "BUFFER_TKE", "BUFFER_EPSILON",
   "BUFFER_BOUNDELEMENTS", "BUFFER_GRADGAMMA", "DBLBUFFER_WRITE"}

\* runSimulation: the first integrator step
IntegratorStep1(c) ==
  GrenierDensity(c, INTEGRATOR_STEP_1)
  \o SpsViscosity(c, INTEGRATOR_STEP_1)
  \o When(c.inspect_preforce, SaveParticles(c, << >>, INTEGRATOR_STEP_1))
  \o ComputeForces(c, INTEGRATOR_STEP_1)
  \o << Cmd("SWAP_BUFFERS", {"BUFFER_BOUNDELEMENTS"}, NAN) >>
  \o MoveBodies(c, 1)
  \o When(~ c.density_sum, << Host("only_internal", FALSE) >>)
  \o << Cmd("EULER", INTEGRATOR_STEP_1, NAN) >>
  \o When(c.density_sum /\ MULTI_DEVICE(c),
          << Cmd("UPDATE_EXTERNAL", DensitySumBuffers, NAN),
             Cmd("UPDATE_EXTERNAL", {"BUFFER_VEL", "BUFFER_GRADGAMMA", "DBLBUFFER_READ"}, NAN) >>)
  \o << Cmd("SWAP_BUFFERS", {"BUFFER_BOUNDELEMENTS"}, NAN) >>
  \o VariableGravity(c)
  \o When(c.sa_boundary, SaBoundaryConditions(c, INTEGRATOR_STEP_1))
  \o << Cmd("SWAP_BUFFERS", {"POST_COMPUTE_SWAP_BUFFERS"}, NAN) >>

\* runSimulation: the second integrator step
IntegratorStep2(c) ==
  GrenierDensity(c, INTEGRATOR_STEP_2)
  \o SpsViscosity(c, INTEGRATOR_STEP_2)
  \o When(c.inspect_preforce, SaveParticles(c, << >>, INTEGRATOR_STEP_2))
  \o ComputeForces(c, INTEGRATOR_STEP_2)
  \o << Cmd("SWAP_BUFFERS",
            {"BUFFER_POS", "BUFFER_VEL", "BUFFER_INTERNAL_ENERGY", "BUFFER_VOLUME",
             "BUFFER_TKE", "BUFFER_EPSILON", "BUFFER_BOUNDELEMENTS"}, NAN) >>
  \o MoveBodies(c, 2)
  \o When(~ c.density_sum, << Host("only_internal", FALSE) >>)
  \o << Cmd("EULER", INTEGRATOR_STEP_2, NAN) >>
  \o When(c.density_sum /\ MULTI_DEVICE(c),
          << Cmd("UPDATE_EXTERNAL", DensitySumBuffers, NAN) >>)
  \o When(c.numbodies > 0, << Cmd("EULER_UPLOAD_OBJECTS_CG", NO_FLAGS, NAN) >>)
  \o << Cmd("SWAP_BUFFERS", {"BUFFER_BOUNDELEMENTS"}, NAN) >>
  \o When(c.sa_boundary, SaBoundaryConditions(c, INTEGRATOR_STEP_2))
  \o When(c.inlet_outlet,
          << Cmd("DOWNLOAD_NEWNUMPARTS", NO_FLAGS, NAN),
             Host("particlesCreated", FALSE) >>)
  \o << Cmd("SWAP_BUFFERS", {"POST_COMPUTE_SWAP_BUFFERS"}, NAN) >>

\* a loop that rebuilds the neighbors list by the iteration count only
LoopBodyPeriodicBuild(c, its, created) ==
  When(its % c.buildneibsfreq = 0, BuildNeibList(c))
  \o RunFilters(c, its)
  \o VariableGravity(c)
  \o IntegratorStep1(c)
  \o IntegratorStep2(c)

\* runSimulation: the body of the loop up to the end of the second integrator step
LoopBody(c, its, created) ==
  When(its % c.buildneibsfreq = 0 \/ created, BuildNeibList(c))
  \o RunFilters(c, its)
  \o VariableGravity(c)
  \o IntegratorStep1(c)
  \o IntegratorStep2(c)


(***************************************************************************)
(* State.                                                                  *)
(***************************************************************************)
VARIABLES
  cfg,                    \* the configuration of the run (never changes)
  pc,                     \* where the orchestrator and each worker thread stand
  waiting,                \* Synchronizer: the participants blocked inside barrier()
  unlocked,               \* Synchronizer: forceUnlock() has been called
  nextCommand,            \* gdata->nextCommand
  commandFlags,           \* gdata->commandFlags
  extraCommandArg,        \* gdata->extraCommandArg
  keep_going,             \* gdata->keep_going
  quit_request,           \* gdata->quit_request
  save_request,           \* gdata->save_request
  only_internal,          \* gdata->only_internal
  particlesCreated,       \* gdata->particlesCreated
  particlesCreatedOnNode, \* gdata->particlesCreatedOnNode[d]
  iterations,             \* gdata->iterations
  t,                      \* gdata->t
  dt,                     \* gdata->dt
  initialized,            \* GPUSPH::initialized
  s_hPartsPerDevice,      \* gdata->s_hPartsPerDevice[d]
  s_hStartPerDevice,      \* gdata->s_hStartPerDevice[d]
  processParticles,       \* gdata->processParticles[n]
  totParticles,           \* gdata->totParticles
  allocatedParticles,     \* gdata->allocatedParticles
  todo,                   \* orchestrator: the rest of the command sequence being issued
  where,                  \* orchestrator: "pre" (before the loop), "body", "save" (in the try block)
  we_are_done,            \* runSimulation: the local we_are_done of the current iteration
  numInternalParticles,   \* worker d: GPUWORKERS[d]->getNumInternalParticles()
  countChanges,           \* how many times a worker reported a changed particle count
  posted,                 \* history: every write of the command record, in order
  wlog,                   \* history: per worker, the command records it executed, in order
  barrierCalls,           \* history: barrier() calls made so far by the current doCommand
  abort,                  \* history: "none", "caught" (by the loop's catch), "uncaught"
  loopsStarted,           \* history: iterations of the loop begun so far
  atCatch,                \* history: loopsStarted and Len(posted) when the catch block ran
  s_hBuffers,             \* gdata->s_hBuffers: the host particle arrays, by buffer key
  s_hDeviceMap,           \* gdata->s_hDeviceMap[cell]
  sorted,                 \* history: what the last sortParticlesByHash() did
  gathered,               \* history: the counts the last all-gather delivered (counts), and
                          \* how many times another node's count changed (changes)
  warnings,               \* history: how many times updateArrayIndices has warned that the
                          \* number of particles changed for no known reason
  dts,                    \* gdata->dts[d]
  netDt,                  \* history: the smallest timestep of the other nodes at the last
                          \* network reduction of dt
  m_rcBitmap,             \* GPUSPH::m_rcBitmap[id]: the id was met by the roll call
  m_rcNotified,           \* GPUSPH::m_rcNotified[id]: an anomaly of the id has been notified
  rollCall,               \* history: what the last rollCallParticles() was given and found
  writersMarked,          \* history: the calls of Writer::MarkWritten and
                          \* Writer::FakeMarkWritten made so far, with their time
  saveHistory             \* history: whether save_request was set from outside, in which
                          \* iteration and part of it, and the iteration that cleared it

vars ==
  << cfg, pc, waiting, unlocked, nextCommand, commandFlags, extraCommandArg, keep_going,
     quit_request, save_request, only_internal, particlesCreated, particlesCreatedOnNode,
     iterations, t, dt, initialized, s_hPartsPerDevice, s_hStartPerDevice, processParticles,
     totParticles, allocatedParticles, todo, where, we_are_done, numInternalParticles,
     countChanges, posted, wlog, barrierCalls, abort, loopsStarted, atCatch,
     s_hBuffers, s_hDeviceMap, sorted, gathered, warnings, dts, netDt, m_rcBitmap,
     m_rcNotified, rollCall, writersMarked, saveHistory >>

rcVars == << m_rcBitmap, m_rcNotified, rollCall >>

\* no request to save has been made
NoSaveRequest == [made |-> FALSE, loop |-> 0, phase |-> "pre", cleared |-> 0]

\* a request to save made in the given iteration and part of it
SaveRequested(loop, phase) == [made |-> TRUE, loop |-> loop, phase |-> phase, cleared |-> 0]

\* Writer::MarkWritten(writers, time), at the end of doWrite
MarkWritten(time) == [how |-> "MarkWritten", at |-> time]

\* Writer::FakeMarkWritten(writers, time)
FakeMarkWritten(time) == [how |-> "FakeMarkWritten", at |-> time]

dtVars == << dts, netDt >>

sortVars == << s_hBuffers, s_hDeviceMap, sorted >>

syncVars == << waiting, unlocked >>

recordVars == << nextCommand, commandFlags, extraCommandArg >>

timeVars == << iterations, t, dt, we_are_done >>

flagVars == << quit_request, save_request, only_internal, particlesCreated, initialized >>

partVars ==
  << s_hPartsPerDevice, s_hStartPerDevice, processParticles, totParticles, allocatedParticles >>

workerVars == << numInternalParticles, particlesCreatedOnNode, countChanges >>

histVars == << posted, wlog, barrierCalls, abort, loopsStarted, atCatch >>

Devices(c) == 0 .. c.devices - 1

\* the worker thread of device d, and the device of worker w
WorkerOf(d) == d + 1

DeviceOf(w) == w - 1

RECURSIVE SumUpTo(_, _)
\* f[0] + ... + f[n-1]
SumUpTo(f, n) == IF n = 0 THEN 0 ELSE f[n - 1] + SumUpTo(f, n - 1)

(***************************************************************************)
(* The initial partition of the host particle arrays among the devices:    *)
(* GPUSPH::sortParticlesByHash.  Arrays are functions over 0 .. n - 1, as  *)
(* in the code.                                                            *)
(***************************************************************************)

\* the bits of a global device id that hold the device number of the node
DEVICE_BITS == 3

\* GlobalData::GLOBAL_DEVICE_ID: the global device id of device d of node n
GLOBAL_DEVICE_ID(n, d) == n * 2 ^ DEVICE_BITS + d

\* GlobalData::RANK: the node of a global device id
RANK(g) == g \div 2 ^ DEVICE_BITS

\* GlobalData::DEVICE: the device number, within its node, of a global device id
DEVICE(g) == g % 2 ^ DEVICE_BITS

\* GlobalData::GLOBAL_DEVICE_NUM: the position of a global device id among all the devices
GLOBAL_DEVICE_NUM(c, g) == RANK(g) * c.devices + DEVICE(g)

\* gdata->totDevices
TotDevices(c) == c.devices * c.mpi_nodes

\* GlobalData::convertDeviceMap: linear device numbers to global device ids
ConvertDeviceMap(c, m) ==
  [cell \in DOMAIN m |-> GLOBAL_DEVICE_ID(m[cell] \div c.devices, m[cell] % c.devices)]

\* initialize(): fillDeviceMap(), then convertDeviceMap() if MULTI_NODE
FilledDeviceMap(c) ==
  IF MULTI_NODE(c) THEN ConvertDeviceMap(c, c.deviceMap) ELSE c.deviceMap

\* cellHashFromParticleHash: the cell a particle hash names
CellHashFromParticleHash(h) == h

\* the keys of the host buffers every particle has an entry in
BufferKeys == {"BUFFER_HASH", "BUFFER_INFO", "BUFFER_POS"}

\* the host buffers as filled before the partition: the hash of each particle, its id
\* (unique) and its position (not unique)
FilledBuffers(c) ==
  [k \in BufferKeys |->
     [p \in DOMAIN c.hashes |->
        CASE k = "BUFFER_HASH" -> c.hashes[p]
          [] k = "BUFFER_INFO" -> p
          [] k = "BUFFER_POS"  -> p \div 2]]

\* an array with the entries at i and j exchanged
SwapElements(a, i, j) == [a EXCEPT ![i] = a[j], ![j] = a[i]]

\* a particleSwap that exchanges the hashes only
ParticleSwapHashOnly(bufs, i, j) ==
  [bufs EXCEPT !["BUFFER_HASH"] = SwapElements(@, i, j)]

\* GPUSPH::particleSwap: swap_elements(i, j) on every host buffer
ParticleSwap(bufs, i, j) == [k \in DOMAIN bufs |-> SwapElements(bufs[k], i, j)]

\* sortParticlesByHash, first loop: m_hParticleKeys[p] = s_hDeviceMap[cellHash of p]
ParticleKeys(hashes, map) ==
  [p \in DOMAIN hashes |-> map[CellHashFromParticleHash(hashes[p])]]

\* sortParticlesByHash, first loop: processParticles[RANK(key)]++
CountPerProcess(c, keys) ==
  [n \in 0 .. c.mpi_nodes - 1 |-> Cardinality({p \in DOMAIN keys : RANK(keys[p]) = n})]

\* sortParticlesByHash, first loop: particlesPerGlobalDevice[GLOBAL_DEVICE_NUM(key)]++
CountPerGlobalDevice(c, keys) ==
  [g \in 0 .. TotDevices(c) - 1 |->
     Cardinality({p \in DOMAIN keys : GLOBAL_DEVICE_NUM(c, keys[p]) = g})]

\* sortParticlesByHash, first loop: s_hPartsPerDevice[DEVICE(key)]++ for the keys of this node
CountPerDevice(c, keys) ==
  [d \in Devices(c) |->
     Cardinality({p \in DOMAIN keys : RANK(keys[p]) = c.mpi_rank /\ DEVICE(keys[p]) = d})]

\* offsets that leave out the particles of the previous nodes
SortStartWithoutNodes(c, parts, procs) == [d \in Devices(c) |-> SumUpTo(parts, d)]

\* sortParticlesByHash: s_hStartPerDevice[0] is the particles of the previous nodes (if
\* MULTI_NODE), s_hStartPerDevice[d] = s_hStartPerDevice[d-1] + s_hPartsPerDevice[d-1]
SortStartPerDevice(c, parts, procs) ==
  [d \in Devices(c) |->
     (IF MULTI_NODE(c) THEN SumUpTo(procs, c.mpi_rank) ELSE 0) + SumUpTo(parts, d)]

\* a test that finds every particle in its bucket
NeedsSwapNever(cur, b) == FALSE

\* a test that finds no particle in its bucket
NeedsSwapAlways(cur, b) == TRUE

\* sortParticlesByHash: if (currPartGlobalDevice != currentGlobalDevice)
NeedsSwap(cur, b) == cur # b

\* a scan that takes the particle the right cursor is at
ScanRightTakingCursor(c, keys, b, rightB) == rightB

RECURSIVE ScanRight(_, _, _, _)
\* sortParticlesByHash: while (GLOBAL_DEVICE_NUM(m_hParticleKeys[rightB]) != b) rightB--;
\* the code does not test rightB against the array: -1 stands for a scan that left it
ScanRight(c, keys, b, rightB) ==
  IF rightB < 0 THEN -1
  ELSE IF GLOBAL_DEVICE_NUM(c, keys[rightB]) = b THEN rightB
  ELSE ScanRight(c, keys, b, rightB - 1)

RECURSIVE CompactBucket(_, _, _, _, _)
\* sortParticlesByHash: while (leftB < nextBucketBeginsAt) { ... leftB++; } for bucket b.
\* st holds bufs, keys, leftB, the number of swaps, for every scan its leftB, the rightB
\* it ended at, the bucket, the device of the particle found and the rightB it began at,
\* and whether a scan left the array
CompactBucket(c, st, b, nextBucketBeginsAt, rightB) ==
  IF st.leftB >= nextBucketBeginsAt \/ st.scanLeftArray THEN st
  ELSE IF NeedsSwap(GLOBAL_DEVICE_NUM(c, st.keys[st.leftB]), b)
  THEN LET r == ScanRight(c, st.keys, b, rightB)
       IN IF r < 0
          THEN [st EXCEPT !.scanLeftArray = TRUE]
          ELSE CompactBucket(c,
                 [st EXCEPT !.bufs = ParticleSwap(@, st.leftB, r),
                            !.keys = SwapElements(@, st.leftB, r),
                            !.swaps = @ + 1,
                            !.scans = Append(@, << st.leftB, r, b,
                                                    GLOBAL_DEVICE_NUM(c, st.keys[r]),
                                                    rightB >>),
                            !.leftB = @ + 1],
                 b, nextBucketBeginsAt, r)
  ELSE CompactBucket(c, [st EXCEPT !.leftB = @ + 1], b, nextBucketBeginsAt, rightB)

RECURSIVE CompactBuckets(_, _, _, _, _, _)
\* sortParticlesByHash: for (currentGlobalDevice = 0; currentGlobalDevice < totDevices - 1; ...)
CompactBuckets(c, st, b, bucketBeginsAt, perGlobalDevice, maxIdx) ==
  IF b >= TotDevices(c) - 1 \/ st.scanLeftArray THEN st
  ELSE LET nextBucketBeginsAt == bucketBeginsAt + perGlobalDevice[b]
       IN CompactBuckets(c, CompactBucket(c, st, b, nextBucketBeginsAt, maxIdx),
                         b + 1, nextBucketBeginsAt, perGlobalDevice, maxIdx)

RECURSIVE VerifyScan(_, _, _, _, _)
\* sortParticlesByHash, "DEBUG: check if the sort was correct": for (p = 0; p < totParticles
\* && monotonic; p++), with v holding monotonic and hcount
VerifyScan(c, hashes, map, p, v) ==
  IF p >= Cardinality(DOMAIN hashes) \/ ~ v.monotonic THEN v
  ELSE LET cdev == map[CellHashFromParticleHash(hashes[p])]
           pdev == IF p > 0 THEN map[CellHashFromParticleHash(hashes[p - 1])] ELSE 0
           hc   == IF RANK(cdev) = c.mpi_rank
                   THEN [v.hcount EXCEPT ![DEVICE(cdev)] = @ + 1]
                   ELSE v.hcount
       IN VerifyScan(c, hashes, map, p + 1,
                     [monotonic |-> ~ (p > 0 /\ cdev < pdev), hcount |-> hc])

\* a final pass that reports the order only
VerifiedOrderOnly(c, hashes, map, parts) ==
  LET v == VerifyScan(c, hashes, map, 0,
                      [monotonic |-> TRUE, hcount |-> [d \in 0 .. 2 ^ DEVICE_BITS - 1 |-> 0]])
  IN [monotonic |-> v.monotonic, count_c |-> TRUE,
      report |-> IF v.monotonic THEN "OK" ELSE "ERROR"]

\* sortParticlesByHash, final pass: monotonic, count_c and the line printed
Verified(c, hashes, map, parts) ==
  LET v == VerifyScan(c, hashes, map, 0,
                      [monotonic |-> TRUE, hcount |-> [d \in 0 .. 2 ^ DEVICE_BITS - 1 |-> 0]])
      count_c == \A d \in Devices(c) : v.hcount[d] = parts[d]
  IN [monotonic |-> v.monotonic, count_c |-> count_c,
      report |-> IF v.monotonic /\ count_c THEN "OK" ELSE "ERROR"]

\* GPUSPH::sortParticlesByHash on the host buffers bufs with the device map map
SortParticlesByHash(c, bufs, map) ==
  LET keys  == ParticleKeys(bufs["BUFFER_HASH"], map)
      procs == CountPerProcess(c, keys)
      parts == CountPerDevice(c, keys)
      n     == Cardinality(DOMAIN keys)
      st    == CompactBuckets(c,
                 [bufs |-> bufs, keys |-> keys, leftB |-> 0, swaps |-> 0, scans |-> << >>,
                  scanLeftArray |-> FALSE],
                 0, 0, CountPerGlobalDevice(c, keys), n - 1)
  IN [ ran           |-> TRUE,
       bufs          |-> st.bufs,
       keys          |-> st.keys,
       parts         |-> parts,
       procs         |-> procs,
       starts        |-> SortStartPerDevice(c, parts, procs),
       swaps         |-> st.swaps,
       scans         |-> st.scans,
       scanLeftArray |-> st.scanLeftArray,
       before        |-> bufs,
       verified      |-> Verified(c, st.bufs["BUFFER_HASH"], map, parts) ]

\* no sortParticlesByHash has run
NotSorted == [ran |-> FALSE]

(***************************************************************************)
(* Time and timestep at the end of an iteration.                           *)
(***************************************************************************)

\* the time from which the sum of the time and a timestep is rounded to a multiple of 2:
\* from there on a timestep of 1 is lost in the sum
CoarseTime == 4

\* the spacing of the representable times about the time tm
Ulp(tm) == IF tm >= CoarseTime THEN 2 ELSE 1

\* runSimulation: gdata->t += gdata->dt, in floating point: a timestep smaller than the
\* spacing of the times about t leaves t as it is
TimeSum(tm, step) == IF step < Ulp(tm) THEN tm ELSE tm + step

\* a choice of the timestep of device 0, whatever the other devices ask for
FirstDt(ds) == ds[0]

\* runSimulation: dt = dts[0]; for d >= 1, dt = min(dt, dts[d])
MinDts(ds) == CHOOSE m \in {ds[d] : d \in DOMAIN ds} : \A d \in DOMAIN ds : m <= ds[d]

\* NetworkManager::networkFloatReduction with MIN_REDUCTION: the smallest of the nodes' values
NetworkFloatReduction(local, remote) == IF remote < local THEN remote ELSE local

(***************************************************************************)
(* The configurations explored.                                            *)
(***************************************************************************)
OneFilter == << [name |-> "filter0", freq |-> 1] >>

OnePostProcess ==
  << [name |-> "postprocess0", updated |-> {"BUFFER_INFO"}, written |-> {"BUFFER_VORTICITY"}] >>

Problems ==
  { \* a single device, two iterations, a filter, a writer due at every step, no room
    \* for more particles
    With(BaseConfig, [maxiter |-> 2, filters |-> OneFilter, writer_due |-> TRUE,
                      postprocess |-> OnePostProcess, spare |-> 0]),
    \* several devices, striping
    With(BaseConfig, [devices |-> MaxDevices, striping |-> TRUE, no_leak_warning |-> TRUE]),
    \* several devices, SA boundaries with open boundaries, moving bodies, SPS, Grenier
    With(BaseConfig, [devices |-> MaxDevices, sa_boundary |-> TRUE, inlet_outlet |-> TRUE,
                      water_depth |-> TRUE, density_sum |-> TRUE, gcallback |-> TRUE,
                      grenier |-> TRUE, visctype |-> "SPSVISC", numbodies |-> 1,
                      numforcesbodies |-> 1, inspect_preforce |-> TRUE, spare |-> 0]),
    \* a single device, SA boundaries with open boundaries
    With(BaseConfig, [sa_boundary |-> TRUE, inlet_outlet |-> TRUE, density_sum |-> TRUE]),
    \* SA boundaries without a boundary-conditions engine
    With(BaseConfig, [sa_boundary |-> TRUE, bcEngine |-> FALSE]),
    \* a timestep of zero
    With(BaseConfig, [devices |-> MaxDevices, dt |-> 0, buildneibsfreq |-> 2,
                      resumed |-> TRUE, iterations0 |-> 1]),
    \* a resumed run whose time cannot advance
    With(BaseConfig, [dt |-> 0, resumed |-> TRUE, t0 |-> 1, iterations0 |-> 1,
                      buildneibsfreq |-> 2, maxiter |-> 0, nosave |-> TRUE]),
    \* the problem cannot be initialised
    With(BaseConfig, [problemInitOk |-> FALSE]),
    \* the grid has more cells than MAX_CELLS
    With(BaseConfig, [gridOk |-> FALSE]),
    \* several devices, adaptive timestep
    With(BaseConfig, [devices |-> MaxDevices, dtadapt |-> TRUE]),
    \* the first of several nodes, adaptive timestep
    With(BaseConfig, [mpi_nodes |-> MaxNodes, dtadapt |-> TRUE, maxiter |-> 2]),
    \* a resumed run at a time too large for its timestep to advance it
    With(BaseConfig, [resumed |-> TRUE, t0 |-> CoarseTime, iterations0 |-> 1,
                      maxiter |-> 3]),
    \* the first of several nodes, one device each
    With(BaseConfig, [mpi_nodes |-> MaxNodes]),
    \* the last of several nodes, one device each
    With(BaseConfig, [mpi_nodes |-> MaxNodes, mpi_rank |-> MaxNodes - 1]),
    \* the last of several nodes, one device each, open boundaries
    \* and a writer that is due while saving is disabled
    With(BaseConfig, [mpi_nodes |-> MaxNodes, mpi_rank |-> MaxNodes - 1,
                      inlet_outlet |-> TRUE, maxiter |-> 2, writer_due |-> TRUE,
                      nosave |-> TRUE, buildneibsfreq |-> 2]),
    \* a request to save from outside while saving is disabled, and no writer due
    With(BaseConfig, [maxiter |-> 2, save_signal |-> TRUE, nosave |-> TRUE]),
    \* the problem asks for a write at every step
    With(BaseConfig, [maxiter |-> 2, problem_write |-> TRUE, nosave |-> TRUE]),
    \* the particles are inspected before each forces computation
    With(BaseConfig, [maxiter |-> 2, inspect_preforce |-> TRUE, spare |-> 0]) }

\* the particles and the device map of a run: one particle in each cell, a cell for each
\* device, the particles filled in the reverse order of their devices
Partitioned(c) ==
  With(c, [hashes    |-> [p \in 0 .. TotDevices(c) - 1 |-> TotDevices(c) - 1 - p],
           deviceMap |-> [cell \in 0 .. TotDevices(c) - 1 |-> cell]])

\* the first of several nodes, one device each, with every particle of the run in the
\* cell of this node and no room for more particles
OneNodeFilled ==
  With(BaseConfig, [mpi_nodes |-> MaxNodes, maxiter |-> 2, spare |-> 0,
                    hashes |-> [p \in 0 .. MaxNodes - 1 |-> 0],
                    deviceMap |-> [cell \in 0 .. MaxNodes - 1 |-> cell]])

Configs == {Partitioned(c) : c \in Problems} \cup {OneNodeFilled}

\* the arrays of n entries over the values vs
Arrays(n, vs) == [0 .. n - 1 -> vs]

\* a run of nd devices on each of nn nodes, seen from node r, with the particle hashes h
\* and the device map m
SortConfig(nd, nn, r, h, m) ==
  With(BaseConfig, [devices |-> nd, mpi_nodes |-> nn, mpi_rank |-> r,
                    hashes |-> h, deviceMap |-> m])

(***************************************************************************)
(* The roll call of the particle ids.                                      *)
(***************************************************************************)

\* rollCallParticles: the bitmap and the addresses of the ids below n are reset
ResetBitmap(n, bitmap) == [id \in DOMAIN bitmap |-> IF id < n THEN FALSE ELSE bitmap[id]]

\* rollCallParticles: the particles from index k on are entered in the bitmap; a particle
\* whose id is already there is notified, once for each id in the whole simulation
RECURSIVE FillBitmap(_, _, _, _)
FillBitmap(k, n, ids, st) ==
  IF k >= n THEN st
  ELSE LET part_id == ids[k]
           double  == st.bitmap[part_id] /\ ~ st.notified[part_id]
       IN FillBitmap(k + 1, n, ids,
                     [bitmap     |-> [st.bitmap EXCEPT ![part_id] = TRUE],
                      notified   |-> IF double THEN [st.notified EXCEPT ![part_id] = TRUE]
                                     ELSE st.notified,
                      all_normal |-> st.all_normal /\ ~ double])

\* rollCallParticles: the ids below n that the bitmap lacks are notified, once for each id
\* in the whole simulation
CheckMissing(n, st) ==
  LET missing == {id \in DOMAIN st.bitmap : id < n /\ ~ st.bitmap[id] /\ ~ st.notified[id]}
  IN [bitmap     |-> st.bitmap,
      notified   |-> [id \in DOMAIN st.notified |-> st.notified[id] \/ id \in missing],
      all_normal |-> st.all_normal /\ missing = {}]

\* a roll call that does not look for the ids nobody has
RollCallWithoutMissing(n, ids, bitmap, notified) ==
  FillBitmap(0, n, ids,
             [bitmap |-> ResetBitmap(n, bitmap), notified |-> notified, all_normal |-> TRUE])

\* GPUSPH::rollCallParticles, on the n particles of this node whose ids are ids[0 .. n-1]
RollCallParticles(n, ids, bitmap, notified) ==
  CheckMissing(n,
    FillBitmap(0, n, ids,
               [bitmap |-> ResetBitmap(n, bitmap), notified |-> notified,
                all_normal |-> TRUE]))

\* no roll call has been made
NoRollCall ==
  [calls |-> 0, n |-> 0, ids |-> << >>, before |-> << >>, all_normal |-> TRUE,
   inside |-> TRUE]

(***************************************************************************)
(* Initial state: the state after GPUSPH::GPUSPH(), before initialize().   *)
(***************************************************************************)
Constructed(cs) ==
  /\ cfg \in cs
  /\ pc = [p \in Participants(cfg) |-> IF p = Main THEN "initialize" ELSE "w_off"]
  /\ waiting = {}
  /\ unlocked = FALSE
  /\ nextCommand = "IDLE"
  /\ commandFlags = NO_FLAGS
  /\ extraCommandArg = NAN
  /\ keep_going = FALSE
  /\ quit_request = FALSE
  /\ save_request = FALSE
  /\ only_internal = FALSE
  /\ particlesCreated = FALSE
  /\ particlesCreatedOnNode = [d \in Devices(cfg) |-> FALSE]
  /\ iterations = 0
  /\ t = 0
  /\ dt = 0
  /\ initialized = FALSE
  /\ s_hPartsPerDevice = [d \in Devices(cfg) |-> 0]
  /\ s_hStartPerDevice = [d \in Devices(cfg) |-> 0]
  /\ processParticles = [n \in 0 .. cfg.mpi_nodes - 1 |-> 0]
  /\ totParticles = 0
  /\ allocatedParticles = 0
  /\ todo = << >>
  /\ where = "pre"
  /\ we_are_done = FALSE
  /\ numInternalParticles = [d \in Devices(cfg) |-> 0]
  /\ countChanges = 0
  /\ posted = << >>
  /\ wlog = [w \in Workers(cfg) |-> << >>]
  /\ barrierCalls = 0
  /\ abort = "none"
  /\ loopsStarted = 0
  /\ atCatch = [loops |-> 0, posts |-> 0]
  /\ s_hBuffers = [k \in BufferKeys |-> << >>]
  /\ s_hDeviceMap = [cell \in DOMAIN cfg.deviceMap |-> 0]
  /\ sorted = NotSorted
  /\ gathered = [counts |-> << >>, changes |-> 0]
  /\ warnings = 0
  /\ dts = [d \in Devices(cfg) |-> cfg.dt]
  /\ netDt = cfg.dt
  /\ m_rcBitmap = << >>
  /\ m_rcNotified = << >>
  /\ rollCall = NoRollCall
  /\ writersMarked = {}
  /\ saveHistory = NoSaveRequest

Init == Constructed(Configs)

(***************************************************************************)
(* Control flow through the barrier calls: the statement each participant  *)
(* reaches when the barrier() call at a given place returns.               *)
(***************************************************************************)

\* a runSimulation without the barrier that unlocks the workers' first cycle barrier
OrchestratorSkipsCycleBarrier(l) ==
  CASE l = "init_barrier"    -> "init_check"
    [] l = "upload_barrier1" -> "set_idle"
    [] l = "upload_barrier2" -> "preloop"
    [] l = "cycle_barrier"   -> "preloop"
    [] l = "quit_barrier1"   -> "quit_barrier2"
    [] l = "quit_barrier2"   -> "final_barrier"
    [] l = "final_barrier"   -> "join"

\* an orchestrator that does not wait at the barrier that ends the finalization
OrchestratorSkipsFinalBarrier(l) ==
  CASE l = "init_barrier"    -> "init_check"
    [] l = "upload_barrier1" -> "set_idle"
    [] l = "upload_barrier2" -> "cycle_barrier"
    [] l = "cycle_barrier"   -> "preloop"
    [] l = "quit_barrier1"   -> "quit_barrier2"
    [] l = "quit_barrier2"   -> "join"
    [] l = "final_barrier"   -> "join"

\* GPUSPH::initialize and GPUSPH::runSimulation: where each barrier() call returns to
OrchestratorAfterBarrier(l) ==
  CASE l = "init_barrier"    -> "init_check"
    [] l = "upload_barrier1" -> "set_idle"
    [] l = "upload_barrier2" -> "cycle_barrier"
    [] l = "cycle_barrier"   -> "preloop"
    [] l = "quit_barrier1"   -> "quit_barrier2"
    [] l = "quit_barrier2"   -> "final_barrier"
    [] l = "final_barrier"   -> "join"

\* a doCommand that calls barrier() once only
DoCommandOneBarrier(l) ==
  CASE l = "dc_barrier1" -> "dc_check"
    [] l = "dc_barrier2" -> "dc_check"

\* GPUSPH::doCommand: two barrier() calls, then the test of keep_going
DoCommandAfterBarrier(l) ==
  CASE l = "dc_barrier1" -> "dc_barrier2"
    [] l = "dc_barrier2" -> "dc_check"

\* the worker thread
WorkerAfterBarrier(l) ==
  CASE l = "w_init_barrier"    -> "w_upload_barrier1"
    [] l = "w_upload_barrier1" -> "w_upload"
    [] l = "w_upload_barrier2" -> "w_loop"
    [] l = "w_cycle_barrier1"  -> "w_cycle_barrier2"
    [] l = "w_cycle_barrier2"  -> "w_loop"
    [] l = "w_end_sim_barrier" -> "w_final_barrier"
    [] l = "w_final_barrier"   -> "w_exit"

DoCommandBarriers == {"dc_barrier1", "dc_barrier2"}

OrchestratorBarriers ==
  {"init_barrier", "upload_barrier1", "upload_barrier2", "cycle_barrier",
   "quit_barrier1", "quit_barrier2", "final_barrier"}

WorkerBarriers ==
  {"w_init_barrier", "w_upload_barrier1", "w_upload_barrier2", "w_cycle_barrier1",
   "w_cycle_barrier2", "w_end_sim_barrier", "w_final_barrier"}

BarrierSites == DoCommandBarriers \cup OrchestratorBarriers \cup WorkerBarriers

AfterBarrier(l) ==
  IF l \in DoCommandBarriers THEN DoCommandAfterBarrier(l)
  ELSE IF l \in OrchestratorBarriers THEN OrchestratorAfterBarrier(l)
  ELSE WorkerAfterBarrier(l)

(***************************************************************************)
(* Synchronizer.                                                           *)
(***************************************************************************)

\* the control state once the participants in ws have returned from barrier()
Released(ws) == [q \in DOMAIN pc |-> IF q \in ws THEN AfterBarrier(pc[q]) ELSE pc[q]]

\* a forceUnlock that leaves the pending calls blocked
ForceUnlockWakesNone(ws) == {}

\* Synchronizer::forceUnlock: the pending barrier() calls it releases
ForceUnlockWakes(ws) == ws

\* a barrier that is complete one participant early
BarrierCompleteEarly(ws, n) == Cardinality(ws) >= n - 1

\* Synchronizer::barrier: all n participants have called it
BarrierComplete(ws, n) == Cardinality(ws) = n

\* Synchronizer::barrier, called by participant p
Barrier(p) ==
  /\ p \in Participants(cfg)
  /\ pc[p] \in BarrierSites
  /\ p \notin waiting
  /\ IF unlocked
     THEN /\ pc' = Released({p})
          /\ waiting' = waiting
     ELSE IF BarrierComplete(waiting \cup {p}, SyncParticipants(cfg))
     THEN /\ pc' = Released(waiting \cup {p})
          /\ waiting' = {}
     ELSE /\ waiting' = waiting \cup {p}
          /\ pc' = pc
  /\ barrierCalls' = IF pc[p] \in DoCommandBarriers THEN barrierCalls + 1 ELSE barrierCalls
  /\ UNCHANGED << cfg, writersMarked, saveHistory, rcVars, sortVars, gathered, warnings, dtVars, unlocked, recordVars, keep_going, flagVars, timeVars, partVars,
                  workerVars, todo, where, posted, wlog, abort, loopsStarted, atCatch >>


(***************************************************************************)
(* The orchestrator thread.                                                *)
(***************************************************************************)

\* the entry of the history for a write of the command record
Posting(c, f, a, via) ==
  [cmd |-> c, flags |-> f, arg |-> a, seq |-> Len(posted) + 1, via |-> via, kg |-> keep_going,
   loop |-> loopsStarted]

\* offsets that leave out the particles of the previous nodes
StartWithoutNodes(c, parts, procs) == [d \in Devices(c) |-> SumUpTo(parts, d)]

\* the partition offsets: incremental sum of the device counts after the previous nodes'
StartPerDevice(c, parts, procs) ==
  [d \in Devices(c) |-> SumUpTo(procs, c.mpi_rank) + SumUpTo(parts, d)]

\* GPUSPH::initialize
Initialize ==
  /\ pc[Main] = "initialize"
  /\ IF ~ cfg.problemInitOk \/ ~ cfg.gridOk
     THEN /\ pc' = [pc EXCEPT ![Main] = "run_entry"]
          /\ UNCHANGED << keep_going, timeVars, partVars, numInternalParticles, sortVars,
                          m_rcBitmap, m_rcNotified >>
     ELSE LET tot  == Cardinality(DOMAIN cfg.hashes)
              map  == IF MULTI_DEVICE(cfg) THEN FilledDeviceMap(cfg) ELSE s_hDeviceMap
              part == SortParticlesByHash(cfg, FilledBuffers(cfg), map)
          IN /\ dt' = cfg.dt
             /\ iterations' = IF cfg.resumed THEN cfg.iterations0 ELSE iterations
             /\ t' = IF cfg.resumed THEN cfg.t0 ELSE t
             /\ totParticles' = tot
             /\ allocatedParticles' = tot + cfg.spare
             /\ m_rcBitmap' = [id \in 0 .. tot + cfg.spare - 1 |-> FALSE]
             /\ m_rcNotified' = [id \in 0 .. tot + cfg.spare - 1 |-> FALSE]
             /\ s_hDeviceMap' = map
             /\ IF MULTI_DEVICE(cfg)
                THEN /\ s_hBuffers' = part.bufs
                     /\ s_hPartsPerDevice' = part.parts
                     /\ processParticles' = part.procs
                     /\ s_hStartPerDevice' = part.starts
                     /\ sorted' = part
                ELSE /\ s_hBuffers' = FilledBuffers(cfg)
                     /\ s_hStartPerDevice' = [s_hStartPerDevice EXCEPT ![0] = 0]
                     /\ s_hPartsPerDevice' = [s_hPartsPerDevice EXCEPT ![0] = tot]
                     /\ processParticles' = [processParticles EXCEPT ![0] = tot]
                     /\ sorted' = sorted
             /\ keep_going' = TRUE
             /\ pc' = [p \in DOMAIN pc |-> IF p = Main THEN "init_barrier" ELSE "w_init"]
             /\ UNCHANGED << we_are_done, numInternalParticles >>
  /\ UNCHANGED << cfg, writersMarked, saveHistory, rollCall, gathered, warnings, dtVars, syncVars, recordVars, flagVars, particlesCreatedOnNode,
                  countChanges, todo, where, histVars >>

\* GPUSPH::initialize, after the barrier that ends the initialisation
InitializeCheck ==
  /\ pc[Main] = "init_check"
  /\ initialized' = keep_going
  /\ pc' = [pc EXCEPT ![Main] = "run_entry"]
  /\ UNCHANGED << cfg, writersMarked, saveHistory, rcVars, sortVars, gathered, warnings, dtVars, syncVars, recordVars, keep_going, quit_request, save_request,
                  only_internal, particlesCreated, timeVars, partVars, workerVars, todo,
                  where, histVars >>

\* a runSimulation that goes on whatever initialize() returned
RunSimulationUnchecked ==
  /\ pc[Main] = "run_entry"
  /\ pc' = [pc EXCEPT ![Main] = "upload_barrier1"]
  /\ writersMarked' = writersMarked \cup {MarkWritten(t)}
  /\ UNCHANGED << cfg, saveHistory, rcVars, sortVars, gathered, warnings, dtVars, syncVars, recordVars, keep_going, flagVars, timeVars, partVars,
                  workerVars, todo, where, histVars >>

\* GPUSPH::runSimulation: if (!initialized) return false; doWrite(INITIALIZATION_STEP)
RunSimulationEntry ==
  /\ pc[Main] = "run_entry"
  /\ pc' = [pc EXCEPT ![Main] = IF initialized THEN "upload_barrier1" ELSE "returned_false"]
  /\ writersMarked' = IF initialized THEN writersMarked \cup {MarkWritten(t)}
                      ELSE writersMarked
  /\ UNCHANGED << cfg, saveHistory, rcVars, sortVars, gathered, warnings, dtVars, syncVars, recordVars, keep_going, flagVars, timeVars, partVars,
                  workerVars, todo, where, histVars >>

\* GPUSPH::runSimulation: gdata->nextCommand = IDLE
SetIdle ==
  /\ pc[Main] = "set_idle"
  /\ nextCommand' = "IDLE"
  /\ posted' = Append(posted, Posting("IDLE", commandFlags, extraCommandArg, "direct"))
  /\ pc' = [pc EXCEPT ![Main] = "upload_barrier2"]
  /\ UNCHANGED << cfg, writersMarked, saveHistory, rcVars, sortVars, gathered, warnings, dtVars, syncVars, commandFlags, extraCommandArg, keep_going, flagVars,
                  timeVars, partVars, workerVars, todo, where, wlog, barrierCalls, abort,
                  loopsStarted, atCatch >>

\* GPUSPH::runSimulation: the initialisation routines run by the workers, before the loop
PreLoopStart ==
  /\ pc[Main] = "preloop"
  /\ todo' = PreLoop(cfg)
  /\ where' = "pre"
  /\ pc' = [pc EXCEPT ![Main] = "run"]
  /\ UNCHANGED << cfg, writersMarked, saveHistory, rcVars, sortVars, gathered, warnings, dtVars, syncVars, recordVars, keep_going, flagVars, timeVars, partVars,
                  workerVars, histVars >>

\* GPUSPH::runSimulation: the loop is reached
EnterLoop ==
  /\ pc[Main] = "run"
  /\ where = "pre"
  /\ todo = << >>
  /\ pc' = [pc EXCEPT ![Main] = "loop_test"]
  /\ UNCHANGED << cfg, writersMarked, saveHistory, rcVars, sortVars, gathered, warnings, dtVars, syncVars, recordVars, keep_going, flagVars, timeVars, partVars,
                  workerVars, todo, where, histVars >>

\* GPUSPH::runSimulation: while (gdata->keep_going)
LoopTest ==
  /\ pc[Main] = "loop_test"
  /\ IF keep_going
     THEN /\ todo' = LoopBody(cfg, iterations, particlesCreated)
          /\ where' = "body"
          /\ loopsStarted' = loopsStarted + 1
          /\ pc' = [pc EXCEPT ![Main] = "run"]
     ELSE /\ pc' = [pc EXCEPT ![Main] = "set_quit"]
          /\ UNCHANGED << todo, where, loopsStarted >>
  /\ UNCHANGED << cfg, writersMarked, saveHistory, rcVars, sortVars, gathered, warnings, dtVars, syncVars, recordVars, keep_going, flagVars, timeVars, partVars,
                  workerVars, posted, wlog, barrierCalls, abort, atCatch >>

\* where an exception raised by the orchestrator is handled
Handler == IF where \in {"body", "save"} THEN "catch" ELSE "uncaught"

\* a doCommand that posts the command kind only
DoCommandWriteKindOnly(op) ==
  /\ nextCommand' = op.cmd
  /\ UNCHANGED << commandFlags, extraCommandArg >>

\* GPUSPH::doCommand: the three assignments to the command record
DoCommandWriteRecord(op) ==
  /\ nextCommand' = op.cmd
  /\ commandFlags' = op.flags
  /\ extraCommandArg' = op.arg

\* GPUSPH::doCommand is entered and writes the command record
DoCommandWrite ==
  /\ pc[Main] = "run"
  /\ todo # << >>
  /\ Head(todo).k = "cmd"
  /\ DoCommandWriteRecord(Head(todo))
  /\ posted' = Append(posted, Posting(Head(todo).cmd, Head(todo).flags, Head(todo).arg,
                                      "doCommand"))
  /\ barrierCalls' = 0
  /\ todo' = Tail(todo)
  /\ pc' = [pc EXCEPT ![Main] = "dc_barrier1"]
  /\ UNCHANGED << cfg, writersMarked, saveHistory, rcVars, sortVars, gathered, warnings, dtVars, syncVars, keep_going, flagVars, timeVars, partVars, workerVars,
                  where, wlog, abort, loopsStarted, atCatch >>

\* a doCommand that never throws
DoCommandNeverThrows(kg) == FALSE

\* GPUSPH::doCommand: if (!gdata->keep_going) throw
DoCommandThrows(kg) == ~ kg

\* GPUSPH::doCommand, after its second barrier
DoCommandCheck ==
  /\ pc[Main] = "dc_check"
  /\ IF DoCommandThrows(keep_going)
     THEN /\ pc' = [pc EXCEPT ![Main] = Handler]
          /\ todo' = << >>
          /\ abort' = IF Handler = "uncaught" THEN "uncaught" ELSE abort
     ELSE /\ pc' = [pc EXCEPT ![Main] = "run"]
          /\ UNCHANGED << todo, abort >>
  /\ UNCHANGED << cfg, writersMarked, saveHistory, rcVars, sortVars, gathered, warnings, dtVars, syncVars, recordVars, keep_going, flagVars, timeVars, partVars,
                  workerVars, where, posted, wlog, barrierCalls, loopsStarted, atCatch >>

\* host code: gdata->only_internal = ...
HostOnlyInternal ==
  /\ pc[Main] = "run"
  /\ todo # << >>
  /\ Head(todo).k = "host"
  /\ Head(todo).op = "only_internal"
  /\ only_internal' = Head(todo).val
  /\ todo' = Tail(todo)
  /\ UNCHANGED << cfg, writersMarked, saveHistory, rcVars, sortVars, gathered, warnings, dtVars, pc, syncVars, recordVars, keep_going, quit_request, save_request,
                  particlesCreated, initialized, timeVars, partVars, workerVars, where,
                  histVars >>

\* NetworkManager::networkBoolReduction: the "or" of the flag of this node and of the others'
NetworkBoolReduction(local, remote) == local \/ remote

\* GPUSPH::runSimulation: particlesCreated is the "or" of the devices' flags, and of the
\* other nodes' if MULTI_NODE
HostParticlesCreated ==
  /\ pc[Main] = "run"
  /\ todo # << >>
  /\ Head(todo).k = "host"
  /\ Head(todo).op = "particlesCreated"
  /\ \E remote \in (IF MULTI_NODE(cfg) THEN BOOLEAN ELSE {FALSE}) :
       particlesCreated' =
         NetworkBoolReduction(\E d \in Devices(cfg) : particlesCreatedOnNode[d], remote)
  /\ todo' = Tail(todo)
  /\ UNCHANGED << cfg, writersMarked, saveHistory, rcVars, sortVars, gathered, warnings, dtVars, pc, syncVars, recordVars, keep_going, quit_request, save_request,
                  only_internal, initialized, timeVars, partVars, workerVars, where,
                  histVars >>

\* GPUSPH::saBoundaryConditions: throw runtime_error("no boundary conditions engine loaded")
HostThrow ==
  /\ pc[Main] = "run"
  /\ todo # << >>
  /\ Head(todo).k = "host"
  /\ Head(todo).op = "throw"
  /\ pc' = [pc EXCEPT ![Main] = Handler]
  /\ todo' = << >>
  /\ abort' = IF Handler = "uncaught" THEN "uncaught" ELSE abort
  /\ UNCHANGED << cfg, writersMarked, saveHistory, rcVars, sortVars, gathered, warnings, dtVars, syncVars, recordVars, keep_going, flagVars, timeVars, partVars,
                  workerVars, where, posted, wlog, barrierCalls, loopsStarted, atCatch >>

\* GPUSPH::saveParticles: doWrite(write_flags)
HostDoWrite ==
  /\ pc[Main] = "run"
  /\ todo # << >>
  /\ Head(todo).k = "host"
  /\ Head(todo).op = "doWrite"
  /\ todo' = Tail(todo)
  /\ writersMarked' = writersMarked \cup {MarkWritten(t)}
  /\ UNCHANGED << cfg, saveHistory, rcVars, sortVars, gathered, warnings, dtVars, pc, syncVars, recordVars, keep_going, flagVars, timeVars, partVars,
                  workerVars, where, histVars >>


\* updateArrayIndices: the device counts reported by the workers
ReportedParts == [d \in Devices(cfg) |-> numInternalParticles[d]]

\* updateArrayIndices: processCount
ProcessCount == SumUpTo(ReportedParts, cfg.devices)

\* updateArrayIndices: processParticles once the count of this process is stored
ReportedProcessParticles == [processParticles EXCEPT ![cfg.mpi_rank] = ProcessCount]

\* the changes of the count of node n since the counts were last known: none, or (at most
\* MaxCountChanges times in a run) a particle less or a particle more
RemoteDeltas(n) ==
  {0} \cup (IF n # cfg.mpi_rank /\ gathered.changes < MaxCountChanges
            THEN (IF processParticles[n] > 0 THEN {-1} ELSE {}) \cup {1}
            ELSE {})

\* the counts the nodes may hold when updateArrayIndices gathers them
RemoteCounts ==
  { [n \in DOMAIN processParticles |-> processParticles[n] + delta[n]] :
      delta \in { f \in [DOMAIN processParticles -> {-1, 0, 1}] :
                    \A n \in DOMAIN f : f[n] \in RemoteDeltas(n) } }

\* an all-gather that delivers nothing
AllGatherKeepsOld(own, remote) == [processParticles EXCEPT ![cfg.mpi_rank] = own]

\* NetworkManager::allGatherUints: the count of every node, this node's being own
AllGatherUints(own, remote) ==
  [n \in DOMAIN remote |-> IF n = cfg.mpi_rank THEN own ELSE remote[n]]

\* updateArrayIndices: newSimulationTotal
NewSimulationTotal(procs) == SumUpTo(procs, cfg.mpi_nodes)

\* updateArrayIndices: the total changed and open boundaries explain it
ChangeByOpenBoundaries(newTotal) ==
  (newTotal < totParticles /\ cfg.inlet_outlet) \/ (newTotal > totParticles /\ cfg.inlet_outlet)

\* a warning of every change that open boundaries do not explain
WarnsOfAnyChange(newTotal) ==
  /\ cfg.mpi_rank = 0 \/ cfg.inlet_outlet
  /\ ~ ChangeByOpenBoundaries(newTotal)
  /\ newTotal # totParticles /\ cfg.mpi_rank = 0

\* updateArrayIndices: "WARNING: ... the number of particles changed ... for no known reason!"
WarnsOfChange(newTotal) ==
  /\ cfg.mpi_rank = 0 \/ cfg.inlet_outlet
  /\ ~ ChangeByOpenBoundaries(newTotal)
  /\ newTotal # totParticles /\ cfg.mpi_rank = 0
  /\ newTotal > totParticles \/ ~ cfg.no_leak_warning

\* updateArrayIndices: the total changed for no known reason and a roll call is made
NeedsRollCall(newTotal) ==
  /\ cfg.mpi_rank = 0 \/ cfg.inlet_outlet
  /\ ~ ChangeByOpenBoundaries(newTotal)
  /\ newTotal # totParticles /\ cfg.mpi_rank = 0
  /\ newTotal > totParticles \/ ~ cfg.no_leak_warning
  /\ SINGLE_NODE(cfg)

\* updateArrayIndices: totParticles at the end of the call
UpdatedTotal(newTotal) ==
  IF cfg.mpi_rank = 0 \/ cfg.inlet_outlet
  THEN IF ChangeByOpenBoundaries(newTotal) THEN newTotal
       ELSE IF newTotal # totParticles /\ cfg.mpi_rank = 0 THEN newTotal
       ELSE totParticles
  ELSE totParticles

\* updateArrayIndices: quit_request at the end of the call
CapacityQuit(procs) == quit_request \/ procs[cfg.mpi_rank] > allocatedParticles

\* GPUSPH::updateArrayIndices, up to the roll call
HostUpdateArrayIndices ==
  /\ pc[Main] = "run"
  /\ todo # << >>
  /\ Head(todo).k = "host"
  /\ Head(todo).op = "updateArrayIndices"
  /\ \E remote \in (IF MULTI_NODE(cfg) THEN RemoteCounts ELSE {processParticles}) :
       LET procs == IF MULTI_NODE(cfg) THEN AllGatherUints(ProcessCount, remote)
                    ELSE ReportedProcessParticles
           newTotal == NewSimulationTotal(procs)
       IN /\ s_hPartsPerDevice' = ReportedParts
          /\ processParticles' = procs
          /\ s_hStartPerDevice' = StartPerDevice(cfg, ReportedParts, procs)
          /\ gathered' = IF MULTI_NODE(cfg)
                         THEN [counts |-> [remote EXCEPT ![cfg.mpi_rank] = ProcessCount],
                               changes |-> IF remote = processParticles THEN gathered.changes
                                           ELSE gathered.changes + 1]
                         ELSE gathered
          /\ warnings' = IF WarnsOfChange(newTotal) THEN warnings + 1 ELSE warnings
          /\ IF NeedsRollCall(newTotal)
             THEN /\ todo' = << Cmd("DUMP", {"BUFFER_INFO", "DBLBUFFER_READ"}, NAN),
                                Host("rollCallParticles", FALSE) >> \o Tail(todo)
                  /\ UNCHANGED << totParticles, quit_request >>
             ELSE /\ todo' = Tail(todo)
                  /\ totParticles' = UpdatedTotal(newTotal)
                  /\ quit_request' = CapacityQuit(procs)
  /\ UNCHANGED << cfg, writersMarked, saveHistory, rcVars, sortVars, dtVars, pc, syncVars, recordVars, keep_going, save_request,
                  only_internal, particlesCreated, initialized, timeVars, allocatedParticles,
                  workerVars, where, histVars >>

\* the ids a DUMP of BUFFER_INFO leaves in the first n places of the host buffer: the
\* workers own the particles, and the roll call is there for the case they lost track of
\* them.  A run explores the compact filling and the loss of every id but the first; the
\* roll call on its own is explored on every array of ids
DumpedIds(n) == {[i \in 0 .. n - 1 |-> i], [i \in 0 .. n - 1 |-> 0]}

\* rollCallParticles() is called on the n particles of this node.  Its three arrays and
\* the host buffers have room for allocatedParticles: with more particles than that the
\* loops run past their end, which is undefined, and any content of the arrays and any
\* verdict may result
RollCallOf(n, dumps) ==
  IF n <= allocatedParticles
  THEN \E ids \in dumps :
         LET found == RollCallParticles(n, ids, m_rcBitmap, m_rcNotified)
         IN /\ m_rcBitmap' = found.bitmap
            /\ m_rcNotified' = found.notified
            /\ rollCall' = [calls |-> rollCall.calls + 1, n |-> n, ids |-> ids,
                            before |-> m_rcNotified, all_normal |-> found.all_normal,
                            inside |-> TRUE]
  ELSE /\ m_rcBitmap' \in [DOMAIN m_rcBitmap -> BOOLEAN]
       /\ m_rcNotified' \in [DOMAIN m_rcNotified -> BOOLEAN]
       /\ \E verdict \in BOOLEAN :
            rollCall' = [calls |-> rollCall.calls + 1, n |-> n, ids |-> << >>,
                         before |-> m_rcNotified, all_normal |-> verdict,
                         inside |-> FALSE]

\* GPUSPH::updateArrayIndices, from the roll call to the end
HostRollCall ==
  /\ pc[Main] = "run"
  /\ todo # << >>
  /\ Head(todo).k = "host"
  /\ Head(todo).op = "rollCallParticles"
  /\ todo' = Tail(todo)
  /\ totParticles' = UpdatedTotal(NewSimulationTotal(processParticles))
  /\ quit_request' = CapacityQuit(processParticles)
  /\ RollCallOf(processParticles[cfg.mpi_rank], DumpedIds(processParticles[cfg.mpi_rank]))
  /\ UNCHANGED << cfg, writersMarked, saveHistory, sortVars, gathered, warnings, dtVars, pc, syncVars, recordVars, keep_going, save_request, only_internal,
                  particlesCreated, initialized, timeVars, s_hPartsPerDevice,
                  s_hStartPerDevice, processParticles, allocatedParticles, workerVars,
                  where, histVars >>

\* FLT_EPSILON, in the unit of time of the model
FLT_EPSILON == 1

\* problem->finished(t)
Finished(c, time) == time >= c.tend

\* a we_are_done that overlooks quit_request
WeAreDoneIgnoresQuit(c, its, time, quit) ==
  Finished(c, time) \/ (c.maxiter # 0 /\ its >= c.maxiter)

\* a we_are_done that overlooks the limit on the iterations
WeAreDoneIgnoresMaxiter(c, its, time, quit) ==
  Finished(c, time) \/ quit

\* runSimulation: we_are_done
WeAreDone(c, its, time, quit) ==
  Finished(c, time) \/ (c.maxiter # 0 /\ its >= c.maxiter) \/ quit

\* a decision to write at the end of every iteration
WriteAlways(c, need_write, force_write) == TRUE

\* a decision to write that lets the writers wait for a forced write
WriteOnlyWhenForced(c, need_write, force_write) == force_write

\* runSimulation: saveParticles is called at the end of this iteration; with nosave a
\* write that is not forced is replaced by Writer::FakeMarkWritten
WriteAtEnd(c, need_write, force_write) ==
  (need_write \/ force_write) /\ ~ (c.nosave /\ ~ force_write)

\* a run that never pretends to have written
NeverFakeWrite(c, need_write, force_write) == FALSE

\* runSimulation: with nosave a write that is due but not forced is not made, and the
\* writers are told they have written
FakeWrite(c, need_write, force_write) ==
  (need_write \/ force_write) /\ c.nosave /\ ~ force_write

\* a reset of save_request at the end of every iteration
ResetSaveRequestAlways(force_write, request) == FALSE

\* runSimulation: if (force_write) gdata->save_request = false
ResetSaveRequest(force_write, request) == IF force_write THEN FALSE ELSE request

\* whether a request to save can arrive while the end of the iteration decides to write
LateSaveSignals == IF cfg.save_signal /\ ~ saveHistory.made THEN {FALSE, TRUE} ELSE {FALSE}

\* GPUSPH::runSimulation: the end of an iteration, from the counters to the decision to write
IterationEnd ==
  /\ pc[Main] = "run"
  /\ where = "body"
  /\ todo = << >>
  /\ iterations' = iterations + 1
  /\ t' = TimeSum(t, dt)
  /\ \E remote \in (IF cfg.dtadapt /\ MULTI_NODE(cfg) THEN 0 .. MaxDt ELSE {netDt}) :
       /\ netDt' = remote
       /\ dt' = IF cfg.dtadapt
                THEN (IF MULTI_NODE(cfg) THEN NetworkFloatReduction(MinDts(dts), remote)
                      ELSE MinDts(dts))
                ELSE dt
  /\ IF t' = 0
     THEN \* throw DtZeroException
          /\ pc' = [pc EXCEPT ![Main] = Handler]
          /\ UNCHANGED << quit_request, save_request, we_are_done, todo, where, writersMarked >>
          /\ UNCHANGED saveHistory
     ELSE LET quit == quit_request \/ dt' < FLT_EPSILON \/ t' = t
              done == WeAreDone(cfg, iterations', t', quit)
              need_write == cfg.writer_due
              force_write == cfg.problem_write \/ done \/ save_request
          IN /\ quit_request' = quit
             /\ we_are_done' = done
             /\ \E late \in LateSaveSignals :
                  \* late: save_request is set between the read of force_write and the reset
                  /\ save_request' = ResetSaveRequest(force_write, save_request \/ late)
                  /\ saveHistory' =
                       LET asked == IF late THEN SaveRequested(loopsStarted, "write")
                                    ELSE saveHistory
                       IN IF force_write /\ (save_request \/ late)
                          THEN [asked EXCEPT !.cleared = loopsStarted]
                          ELSE asked
             /\ todo' = IF WriteAtEnd(cfg, need_write, force_write)
                        THEN SaveParticles(cfg, cfg.postprocess,
                                           IF force_write THEN ALL_INTEGRATION_STEPS
                                           ELSE NO_FLAGS)
                        ELSE << >>
             /\ writersMarked' = IF FakeWrite(cfg, need_write, force_write)
                                 THEN writersMarked \cup {FakeMarkWritten(t')}
                                 ELSE writersMarked
             /\ where' = "save"
             /\ pc' = pc
  /\ UNCHANGED << cfg, rcVars, sortVars, gathered, warnings, dts, syncVars, recordVars, keep_going,
                  only_internal, particlesCreated, initialized, partVars, workerVars,
                  histVars >>

\* GPUSPH::runSimulation: if (we_are_done) gdata->keep_going = false
IterationDone ==
  /\ pc[Main] = "run"
  /\ where = "save"
  /\ todo = << >>
  /\ keep_going' = IF we_are_done THEN FALSE ELSE keep_going
  /\ pc' = [pc EXCEPT ![Main] = "loop_test"]
  /\ UNCHANGED << cfg, writersMarked, saveHistory, rcVars, sortVars, gathered, warnings, dtVars, syncVars, recordVars, flagVars, timeVars, partVars, workerVars,
                  todo, where, histVars >>

\* a catch block that leaves keep_going alone
CatchKeepsGoing(kg) == kg

\* GPUSPH::runSimulation, catch block: gdata->keep_going = false
CatchKeepGoing(kg) == FALSE

\* GPUSPH::runSimulation: the catch block, up to the forceUnlock
Catch ==
  /\ pc[Main] = "catch"
  /\ keep_going' = CatchKeepGoing(keep_going)
  /\ abort' = "caught"
  /\ atCatch' = [loops |-> loopsStarted, posts |-> Len(posted)]
  /\ pc' = [pc EXCEPT ![Main] = "force_unlock"]
  /\ UNCHANGED << cfg, writersMarked, saveHistory, rcVars, sortVars, gathered, warnings, dtVars, syncVars, recordVars, flagVars, timeVars, partVars, workerVars,
                  todo, where, posted, wlog, barrierCalls, loopsStarted >>

\* a catch block without the forceUnlock
CatchUnlocksNot(u) == u

\* GPUSPH::runSimulation, catch block: the Synchronizer after threadSynchronizer->forceUnlock()
CatchUnlocks(u) == TRUE

\* GPUSPH::runSimulation: the catch block's forceUnlock; the loop condition is tested next
CatchForceUnlock ==
  /\ pc[Main] = "force_unlock"
  /\ unlocked' = CatchUnlocks(unlocked)
  /\ LET woken == IF unlocked' THEN ForceUnlockWakes(waiting) ELSE {}
     IN /\ waiting' = waiting \ woken
        /\ pc' = [Released(woken) EXCEPT ![Main] = "loop_test"]
  /\ UNCHANGED << cfg, writersMarked, saveHistory, rcVars, sortVars, gathered, warnings, dtVars, recordVars, keep_going, flagVars, timeVars, partVars, workerVars,
                  todo, where, histVars >>

\* GPUSPH::runSimulation: gdata->nextCommand = QUIT
SetQuit ==
  /\ pc[Main] = "set_quit"
  /\ nextCommand' = "QUIT"
  /\ posted' = Append(posted, Posting("QUIT", commandFlags, extraCommandArg, "direct"))
  /\ pc' = [pc EXCEPT ![Main] = "quit_barrier1"]
  /\ UNCHANGED << cfg, writersMarked, saveHistory, rcVars, sortVars, gathered, warnings, dtVars, syncVars, commandFlags, extraCommandArg, keep_going, flagVars,
                  timeVars, partVars, workerVars, todo, where, wlog, barrierCalls, abort,
                  loopsStarted, atCatch >>

\* GPUSPH::runSimulation: join_worker() of every worker, then return true
Join ==
  /\ pc[Main] = "join"
  /\ \A w \in Workers(cfg) : pc[w] = "w_exit"
  /\ pc' = [pc EXCEPT ![Main] = "done"]
  /\ UNCHANGED << cfg, writersMarked, saveHistory, rcVars, sortVars, gathered, warnings, dtVars, syncVars, recordVars, keep_going, flagVars, timeVars, partVars,
                  workerVars, todo, where, histVars >>

(***************************************************************************)
(* The worker threads.                                                     *)
(***************************************************************************)

\* the worker initialises its device; a failure clears keep_going
WorkerInit(w) ==
  /\ w \in Workers(cfg)
  /\ pc[w] = "w_init"
  /\ \E ok \in BOOLEAN :
       IF ok
       THEN /\ pc' = [pc EXCEPT ![w] = "w_init_barrier"]
            /\ keep_going' = keep_going
       ELSE /\ pc' = [pc EXCEPT ![w] = "w_end_sim_barrier"]
            /\ keep_going' = FALSE
  /\ UNCHANGED << cfg, writersMarked, saveHistory, rcVars, sortVars, gathered, warnings, dtVars, syncVars, recordVars, flagVars, timeVars, partVars, workerVars,
                  todo, where, histVars >>

\* the worker uploads its partition of the particles
WorkerUpload(w) ==
  /\ w \in Workers(cfg)
  /\ pc[w] = "w_upload"
  /\ numInternalParticles' =
       [numInternalParticles EXCEPT ![DeviceOf(w)] = s_hPartsPerDevice[DeviceOf(w)]]
  /\ pc' = [pc EXCEPT ![w] = "w_upload_barrier2"]
  /\ UNCHANGED << cfg, writersMarked, saveHistory, rcVars, sortVars, gathered, warnings, dtVars, syncVars, recordVars, keep_going, flagVars, timeVars, partVars,
                  particlesCreatedOnNode, countChanges, todo, where, histVars >>

\* the worker's cycle: while (gdata->keep_going)
WorkerLoop(w) ==
  /\ w \in Workers(cfg)
  /\ pc[w] = "w_loop"
  /\ pc' = [pc EXCEPT ![w] = IF keep_going THEN "w_exec" ELSE "w_end_sim_barrier"]
  /\ UNCHANGED << cfg, writersMarked, saveHistory, rcVars, sortVars, gathered, warnings, dtVars, syncVars, recordVars, keep_going, flagVars, timeVars, partVars,
                  workerVars, todo, where, histVars >>

\* the changes of its particle count a worker may find when it downloads the new number
CountDeltas(d) ==
  {0} \cup (IF countChanges < MaxCountChanges
            THEN (IF numInternalParticles[d] > 0 THEN {-1} ELSE {}) \cup {1}
            ELSE {})

\* the forces of the second integrator step leave in gdata->dts[d] the timestep the device
\* asks for, if the timestep is adaptive
WritesDt(command, flags) ==
  /\ cfg.dtadapt
  /\ command \in {"FORCES_SYNC", "FORCES_COMPLETE"}
  /\ flags = INTEGRATOR_STEP_2

\* the worker reads the command record and executes the command; a failure clears keep_going
WorkerExec(w) ==
  /\ w \in Workers(cfg)
  /\ pc[w] = "w_exec"
  /\ wlog' = [wlog EXCEPT ![w] =
                Append(@, [cmd |-> nextCommand, flags |-> commandFlags,
                           arg |-> extraCommandArg, seq |-> Len(posted)])]
  /\ \E ok \in BOOLEAN :
       IF ~ ok /\ nextCommand # "IDLE"
       THEN /\ keep_going' = FALSE
            /\ pc' = [pc EXCEPT ![w] = "w_end_sim_barrier"]
            /\ UNCHANGED workerVars
       ELSE /\ keep_going' = keep_going
            /\ pc' = [pc EXCEPT ![w] = "w_cont"]
            /\ IF nextCommand = "DOWNLOAD_NEWNUMPARTS"
               THEN \E delta \in CountDeltas(DeviceOf(w)) :
                      /\ numInternalParticles' =
                           [numInternalParticles EXCEPT ![DeviceOf(w)] = @ + delta]
                      /\ particlesCreatedOnNode' =
                           [particlesCreatedOnNode EXCEPT ![DeviceOf(w)] = delta > 0]
                      /\ countChanges' = IF delta = 0 THEN countChanges ELSE countChanges + 1
               ELSE UNCHANGED workerVars
  /\ dts' \in IF WritesDt(nextCommand, commandFlags)
               THEN {[dts EXCEPT ![DeviceOf(w)] = v] : v \in 0 .. MaxDt}
               ELSE {dts}
  /\ UNCHANGED << cfg, writersMarked, saveHistory, rcVars, sortVars, gathered, warnings, netDt, syncVars, recordVars, flagVars, timeVars, partVars, todo, where,
                  posted, barrierCalls, abort, loopsStarted, atCatch >>

\* the worker's cycle: if (gdata->keep_going) the two cycle barriers follow
WorkerContinue(w) ==
  /\ w \in Workers(cfg)
  /\ pc[w] = "w_cont"
  /\ pc' = [pc EXCEPT ![w] = IF keep_going THEN "w_cycle_barrier1" ELSE "w_end_sim_barrier"]
  /\ UNCHANGED << cfg, writersMarked, saveHistory, rcVars, sortVars, gathered, warnings, dtVars, syncVars, recordVars, keep_going, flagVars, timeVars, partVars,
                  workerVars, todo, where, histVars >>

(***************************************************************************)
(* Specification.                                                          *)
(***************************************************************************)
OrchestratorStep ==
  \/ Initialize
  \/ InitializeCheck
  \/ RunSimulationEntry
  \/ SetIdle
  \/ PreLoopStart
  \/ EnterLoop
  \/ LoopTest
  \/ DoCommandWrite
  \/ DoCommandCheck
  \/ HostOnlyInternal
  \/ HostParticlesCreated
  \/ HostThrow
  \/ HostDoWrite
  \/ HostUpdateArrayIndices
  \/ HostRollCall
  \/ IterationEnd
  \/ IterationDone
  \/ Catch
  \/ CatchForceUnlock
  \/ SetQuit
  \/ Join
  \/ Barrier(Main)

WorkerStep(w) ==
  \/ WorkerInit(w)
  \/ WorkerUpload(w)
  \/ WorkerLoop(w)
  \/ WorkerExec(w)
  \/ WorkerContinue(w)
  \/ Barrier(w)

\* a request to save from outside the orchestrator: the signal handler sets
\* gdata->save_request
SaveSignal ==
  /\ cfg.save_signal
  /\ ~ saveHistory.made
  /\ pc[Main] \in {"run", "loop_test"}
  /\ save_request' = TRUE
  /\ saveHistory' = SaveRequested(loopsStarted,
                                  IF pc[Main] = "loop_test" THEN "test" ELSE where)
  /\ UNCHANGED << cfg, writersMarked, rcVars, sortVars, gathered, warnings, dtVars, pc, syncVars, recordVars,
                  keep_going, quit_request, only_internal, particlesCreated, initialized,
                  timeVars, partVars, workerVars, todo, where, histVars >>

Next == OrchestratorStep \/ (\E w \in 1 .. MaxDevices : WorkerStep(w)) \/ SaveSignal

Spec == Init /\ [][Next]_vars

\* the configurations explored for the termination of the shutdown
FairConfigs == {c \in Configs : ~ (MULTI_DEVICE(c) /\ c.sa_boundary)}

FairInit == Init /\ cfg \in FairConfigs

\* every thread that can take a step eventually takes one
FairSpec ==
  /\ FairInit
  /\ [][Next]_vars
  /\ WF_vars(OrchestratorStep)
  /\ \A w \in 1 .. MaxDevices : WF_vars(WorkerStep(w))

\* the initial partition alone, on every input within the bounds
SortInit ==
  \E nd \in 1 .. MaxDevices, nn \in 1 .. MaxNodes, n \in 0 .. MaxParticles :
    \E r \in 0 .. nn - 1, h \in Arrays(n, 0 .. NumCells - 1),
       m \in Arrays(NumCells, 0 .. nd * nn - 1) :
      Constructed({SortConfig(nd, nn, r, h, m)})

SortNext == Initialize

SortSpec == SortInit /\ [][SortNext]_vars

\* the roll call alone: a run of one device whose arrays have room for MaxParticles
RollInit ==
  Constructed({With(BaseConfig, [hashes |-> [p \in 0 .. MaxParticles - 1 |-> 0],
                                 spare  |-> 0])})

\* rollCallParticles() on any number of particles the arrays have room for, with any ids
RollCallAlone ==
  /\ allocatedParticles > 0
  /\ rollCall.calls < MaxRollCalls
  /\ \E n \in 0 .. allocatedParticles :
       RollCallOf(n, Arrays(n, 0 .. allocatedParticles - 1))
  /\ UNCHANGED << cfg, writersMarked, saveHistory, sortVars, gathered, warnings, dtVars, pc, syncVars, recordVars,
                  keep_going, flagVars, timeVars, partVars, workerVars, todo, where,
                  histVars >>

RollNext == Initialize \/ RollCallAlone

RollSpec == RollInit /\ [][RollNext]_vars

(***************************************************************************)
(* Properties of the command dispatch.                                     *)
(***************************************************************************)

\* entry e of a worker's log is the posting q
SameCommand(e, q) == e.cmd = q.cmd /\ e.flags = q.flags /\ e.arg = q.arg

\* the postings made through doCommand
DoCommandPostings == {i \in 1 .. Len(posted) : posted[i].via = "doCommand"}

\* this step writes the command record
RecordWritten == posted' # posted

\* this step is the write of a doCommand
DoCommandPosts == RecordWritten /\ posted'[Len(posted')].via = "doCommand"

\* C1: the log of the commands a worker has executed is, entry by entry and in
\* order, the sequence posted (no command twice, none out of order); it is the
\* whole sequence whenever a doCommand has returned, and at the end of a run
\* that was not aborted it is everything posted but the closing QUIT.
C1_DispatcherOrdering ==
  \A w \in Workers(cfg) :
    /\ Len(wlog[w]) <= Len(posted)
    /\ \A i \in 1 .. Len(wlog[w]) :
         wlog[w][i].seq = i /\ SameCommand(wlog[w][i], posted[i])
    /\ pc[Main] = "run" => Len(wlog[w]) = Len(posted)
    /\ pc[Main] = "done" /\ abort = "none" => Len(wlog[w]) = Len(posted) - 1

\* a run of two devices has ended normally and both workers have executed every command
C1_Witness ==
  /\ pc[Main] = "done"
  /\ abort = "none"
  /\ cfg.devices = 2
  /\ Cardinality(DoCommandPostings) >= 5
  /\ \A w \in Workers(cfg) :
       /\ Len(wlog[w]) = Len(posted) - 1
       /\ \E i \in 1 .. Len(wlog[w]) : wlog[w][i].flags # NO_FLAGS

\* C2: at most one command is in flight: when doCommand posts a command, every
\* worker has executed all the commands posted before and is at a barrier, and
\* the previous doCommand has made both its barrier calls; a worker is never
\* more than one doCommand posting behind.
C2_OneCommandInFlight ==
  /\ [](\A w \in Workers(cfg) :
          Cardinality({i \in DoCommandPostings : i > Len(wlog[w])}) <= 1)
  /\ [][DoCommandPosts =>
          /\ \A w \in Workers(cfg) :
               /\ Len(wlog[w]) = Len(posted)
               /\ pc[w] \in WorkerBarriers
          /\ DoCommandPostings # {} => barrierCalls = 2]_vars

\* a second command has been posted through doCommand and no worker has read it yet
C2_Witness ==
  /\ Cardinality(DoCommandPostings) >= 2
  /\ pc[Main] = "dc_barrier1"
  /\ \A w \in Workers(cfg) : Len(wlog[w]) = Len(posted) - 1

\* the command record holds the posting made last
RecordIsLastPosting ==
  /\ posted # << >>
  /\ nextCommand = posted[Len(posted)].cmd
  /\ commandFlags = posted[Len(posted)].flags
  /\ extraCommandArg = posted[Len(posted)].arg

\* C3: a doCommand has written the three fields of the record before its first
\* barrier call, and has made exactly two barrier calls when it returns or throws.
C3_WriteThenTwoBarriers ==
  /\ pc[Main] \in DoCommandBarriers \cup {"dc_check"} => RecordIsLastPosting
  /\ pc[Main] = "dc_barrier1" => barrierCalls = (IF Main \in waiting THEN 1 ELSE 0)
  /\ pc[Main] = "dc_barrier2" => barrierCalls = (IF Main \in waiting THEN 2 ELSE 1)
  /\ pc[Main] \notin DoCommandBarriers /\ DoCommandPostings # {} => barrierCalls = 2

\* a doCommand has returned and another has thrown, each after two barrier calls
C3_Witness ==
  /\ pc[Main] = "catch"
  /\ ~ keep_going
  /\ barrierCalls = 2
  /\ Cardinality(DoCommandPostings) >= 2
  /\ commandFlags # NO_FLAGS

\* the posting this step makes
NewPosting == posted'[Len(posted')]

\* C4 as stated: the command record is written, by doCommand and by the direct
\* IDLE and QUIT postings, only while every worker is at a barrier.
C4_WrittenOnlyAtBarriers ==
  [][RecordWritten => \A w \in Workers(cfg) : pc[w] \in WorkerBarriers]_vars

\* C4, amended: no worker is executing a command when the record is written.
\* At a doCommand write every worker is at a barrier; at the IDLE write every
\* worker is in its upload phase, before its first execution window; at the
\* QUIT write every worker is at a barrier or, once the synchronizer is
\* unlocked, on its way out of the cycle with keep_going false.
C4_WrittenOutsideExecution ==
  [][RecordWritten =>
       \A w \in Workers(cfg) :
         /\ pc[w] \notin {"w_exec", "w_cont"}
         /\ pc[w] = "w_loop" => unlocked /\ ~ keep_going
         /\ NewPosting.via = "doCommand" => pc[w] \in WorkerBarriers
         /\ NewPosting.cmd = "IDLE" => pc[w] \in {"w_upload", "w_upload_barrier2"}
         /\ NewPosting.cmd = "QUIT" /\ ~ unlocked => pc[w] \in WorkerBarriers]_vars

\* QUIT has been written while a worker released by forceUnlock had not yet left its cycle
C4_Witness ==
  /\ nextCommand = "QUIT"
  /\ pc[Main] = "quit_barrier1"
  /\ unlocked
  /\ \E w \in Workers(cfg) : pc[w] = "w_loop"

\* C5: after the second barrier of doCommand, doCommand throws if keep_going is
\* false and returns normally only if keep_going is true.
C5_ThrowsIffNotKeepGoing ==
  [][pc[Main] = "dc_check" /\ pc'[Main] # "dc_check" =>
       /\ barrierCalls = 2
       /\ keep_going => pc'[Main] = "run"
       /\ ~ keep_going => pc'[Main] \in {"catch", "uncaught"} /\ todo' = << >>]_vars

\* a doCommand of the loop body has thrown after a worker cleared keep_going
C5_Witness ==
  /\ pc[Main] = "catch"
  /\ ~ keep_going
  /\ barrierCalls = 2
  /\ where = "body"
  /\ \E w \in Workers(cfg) : pc[w] \in {"w_end_sim_barrier", "w_final_barrier"}

\* C6: once keep_going is false no command is posted through doCommand, in the
\* loop or in a nested sequence; the only write of the record that follows is
\* the QUIT of the shutdown, and no worker executes a posting made with
\* keep_going false.
C6_NoCommandAfterKeepGoingFalse ==
  /\ \A i \in 1 .. Len(posted) :
       /\ posted[i].via = "doCommand" => posted[i].kg
       /\ ~ posted[i].kg => posted[i].cmd = "QUIT" /\ i = Len(posted)
  /\ \A w \in Workers(cfg) : \A i \in 1 .. Len(wlog[w]) : posted[wlog[w][i].seq].kg
  /\ pc[Main] \in DoCommandBarriers /\ ~ keep_going =>
       \E w \in Workers(cfg) : Len(wlog[w]) = Len(posted)

\* a worker has failed inside a nested sequence, which was abandoned, and only QUIT followed
C6_Witness ==
  /\ pc[Main] = "done"
  /\ abort = "caught"
  /\ Len(posted) = atCatch.posts + 1
  /\ posted[atCatch.posts].cmd \in {"CALCHASH", "SORT", "CROP", "DUMP", "APPEND_EXTERNAL"}
  /\ ~ posted[Len(posted)].kg

\* C7: an exception raised in the loop body is caught by the loop; the rest of
\* the iteration is abandoned, keep_going is false, the synchronizer is
\* unlocked as soon as the catch block has run, no further iteration starts
\* and no further command is posted through doCommand.
C7_LoopExceptionEndsLoop ==
  /\ pc[Main] = "uncaught" => where = "pre"
  /\ abort = "caught" =>
       /\ ~ keep_going
       /\ pc[Main] # "force_unlock" => unlocked
       /\ todo = << >>
       /\ loopsStarted = atCatch.loops
       /\ pc[Main] \in {"force_unlock", "loop_test", "set_quit", "quit_barrier1",
                        "quit_barrier2", "final_barrier", "join", "done"}
       /\ \A i \in DoCommandPostings : i <= atCatch.posts
  /\ pc[Main] = "catch" => abort = "none" /\ where \in {"body", "save"}

\* the orchestrator itself raised the exception, and the loop has exited
C7_Witness ==
  /\ abort = "caught"
  /\ pc[Main] = "set_quit"
  /\ \A w \in Workers(cfg) : Len(wlog[w]) = atCatch.posts
  /\ loopsStarted = 1

(***************************************************************************)
(* Properties of the Synchronizer and of the shutdown.                     *)
(***************************************************************************)

\* participant p returns from a barrier() call in this step
Returns(p) == pc[p] \in BarrierSites /\ pc'[p] # pc[p]

\* C8: after a failure in the loop, caught by the loop's catch block, the
\* orchestrator passes the shutdown barriers, joins the workers and returns,
\* every worker has left its thread function and nobody is left in a barrier.
C8_CleanShutdownAfterFailure ==
  (pc[Main] = "catch" \/ abort = "caught") ~>
     (/\ pc[Main] = "done"
      /\ waiting = {}
      /\ \A w \in Workers(cfg) : pc[w] = "w_exit")

\* runSimulation has returned after a failure in the loop of a run of two devices
C8_Witness ==
  /\ abort = "caught"
  /\ pc[Main] = "done"
  /\ cfg.devices = 2
  /\ \E w \in Workers(cfg) : Len(wlog[w]) < atCatch.posts

\* C9: the synchronizer counts devices + 1 participants; while it is not
\* unlocked, a barrier() call returns only in the step in which the last of
\* the devices + 1 participants calls it, and then it returns for all of them.
C9_BarrierWaitsForAll ==
  /\ [](~ unlocked => Cardinality(waiting) < cfg.devices + 1)
  /\ [][~ unlocked /\ ~ unlocked' /\ (\E p \in Participants(cfg) : Returns(p)) =>
          /\ Cardinality(waiting) = cfg.devices
          /\ Cardinality(Participants(cfg)) = cfg.devices + 1
          /\ \A q \in Participants(cfg) : Returns(q)
          /\ waiting' = {}]_vars

\* the two workers wait in the barrier for the orchestrator, which is still posting
C9_Witness ==
  /\ cfg.devices = 2
  /\ ~ unlocked
  /\ waiting = Workers(cfg)
  /\ pc[Main] = "run"
  /\ todo # << >>

\* C10: forceUnlock makes every pending barrier() call return; from then on the
\* synchronizer stays unlocked and no barrier() call blocks: nobody waits in it.
C10_ForceUnlockIsPermanent ==
  /\ [](unlocked => waiting = {})
  /\ [][/\ unlocked => unlocked'
        /\ ~ unlocked /\ unlocked' =>
             \A p \in waiting : pc'[p] = AfterBarrier(pc[p])]_vars

\* the orchestrator has passed the barriers of the shutdown alone, after the forceUnlock
C10_Witness ==
  /\ unlocked
  /\ pc[Main] = "join"
  /\ \E w \in Workers(cfg) : pc[w] \in {"w_loop", "w_end_sim_barrier"}

(***************************************************************************)
(* Claims about the initial partition (sortParticlesByHash).               *)
(***************************************************************************)

\* the bucket of the particle at index p of the host buffers: the position, among all
\* the devices, of the device its cell is mapped to
Bucket(bufs, map, p) ==
  GLOBAL_DEVICE_NUM(cfg, map[CellHashFromParticleHash(bufs["BUFFER_HASH"][p])])

\* the buckets of the particles never decrease along the array
BucketMonotone(bufs, map) ==
  \A i, j \in DOMAIN bufs["BUFFER_HASH"] : i < j => Bucket(bufs, map, i) <= Bucket(bufs, map, j)

\* C11: after the partition the bucket of the particle at index i is at most the bucket
\* of the particle at index j, for all i < j, whatever the input array and the device
\* map: with empty buckets, and with a single device (a single bucket), where the
\* partition procedure leaves the array as it is.
C11_BucketsMonotone ==
  /\ sorted.ran => BucketMonotone(s_hBuffers, s_hDeviceMap)
  /\ pc[Main] = "init_barrier" /\ ~ sorted.ran =>
       LET part == SortParticlesByHash(cfg, s_hBuffers, s_hDeviceMap)
       IN BucketMonotone(part.bufs, s_hDeviceMap) /\ part.bufs = s_hBuffers

\* an array that was out of order, with an empty bucket between two used ones, has been
\* partitioned with two swaps
C11_Witness ==
  /\ sorted.ran
  /\ ~ BucketMonotone(sorted.before, s_hDeviceMap)
  /\ sorted.swaps >= 2
  /\ \E g \in 1 .. TotDevices(cfg) - 2 :
       /\ CountPerGlobalDevice(cfg, sorted.keys)[g] = 0
       /\ CountPerGlobalDevice(cfg, sorted.keys)[g - 1] > 0
       /\ CountPerGlobalDevice(cfg, sorted.keys)[g + 1] > 0

\* the device, counted over all the nodes from 0, that the problem's device map (before its
\* conversion to global device ids) gives to the cell of hash h
LinearDevice(h) == cfg.deviceMap[CellHashFromParticleHash(h)]

\* the position among all the devices of device d of this node
ThisNodeDevice(d) == cfg.mpi_rank * cfg.devices + d

\* C12: the descriptor of the partition is exact: for every device d of this node, the
\* indices from s_hStartPerDevice[d] up to s_hStartPerDevice[d] + s_hPartsPerDevice[d]
\* (excluded) of the sorted array are exactly the indices of the particles whose cell the
\* device map gives to d, and s_hPartsPerDevice[d] is the number of particles of the
\* array as filled whose cell the device map gives to d.
C12_DescriptorExact ==
  sorted.ran =>
    \A d \in Devices(cfg) :
      /\ \A p \in DOMAIN s_hBuffers["BUFFER_HASH"] :
           (s_hStartPerDevice[d] <= p /\ p < s_hStartPerDevice[d] + s_hPartsPerDevice[d])
             <=> LinearDevice(s_hBuffers["BUFFER_HASH"][p]) = ThisNodeDevice(d)
      /\ s_hPartsPerDevice[d] =
           Cardinality({p \in DOMAIN cfg.hashes : LinearDevice(cfg.hashes[p]) = ThisNodeDevice(d)})

\* the second node of two, each of its two devices with particles that follow those of
\* the first node in the array, which was not in order
C12_Witness ==
  /\ sorted.ran
  /\ cfg.mpi_rank = 1
  /\ cfg.devices = 2
  /\ sorted.swaps > 0
  /\ processParticles[0] > 0
  /\ \A d \in Devices(cfg) : s_hPartsPerDevice[d] > 0

\* the index each particle of the sorted array had in the array as filled: its id
FilledIndex == s_hBuffers["BUFFER_INFO"]

\* C13: the partition permutes the host buffers and the array of keys by one and the same
\* permutation of the particle indices: the entry at an index of every buffer, and of the
\* array of keys, is the entry the same particle had before, and no particle is lost or
\* duplicated.
C13_OnePermutation ==
  sorted.ran =>
    LET idx == DOMAIN sorted.before["BUFFER_HASH"]
    IN /\ \A k \in BufferKeys : DOMAIN s_hBuffers[k] = idx
       /\ DOMAIN sorted.keys = idx
       /\ {FilledIndex[p] : p \in idx} = idx
       /\ \A p \in idx :
            /\ \A k \in BufferKeys : s_hBuffers[k][p] = sorted.before[k][FilledIndex[p]]
            /\ sorted.keys[p] =
                 ParticleKeys(sorted.before["BUFFER_HASH"], s_hDeviceMap)[FilledIndex[p]]

\* two swaps have moved the particles, their positions included
C13_Witness ==
  /\ sorted.ran
  /\ sorted.swaps >= 2
  /\ s_hBuffers["BUFFER_POS"] # sorted.before["BUFFER_POS"]
  /\ \E p \in DOMAIN FilledIndex : FilledIndex[p] # p

\* C14: on an array whose particles are already grouped by device, in the order of the
\* devices, the partition makes no swap and leaves every host buffer as it was.
C14_GroupedIsUntouched ==
  sorted.ran /\ BucketMonotone(sorted.before, s_hDeviceMap) =>
    /\ sorted.swaps = 0
    /\ sorted.scans = << >>
    /\ s_hBuffers = sorted.before

\* a grouped array of at least three particles, in two buckets or more, has been partitioned
C14_Witness ==
  /\ sorted.ran
  /\ BucketMonotone(sorted.before, s_hDeviceMap)
  /\ Cardinality(DOMAIN sorted.before["BUFFER_HASH"]) >= 3
  /\ Cardinality({Bucket(sorted.before, s_hDeviceMap, p) :
                    p \in DOMAIN sorted.before["BUFFER_HASH"]}) >= 2

\* sortParticlesByHash, "here it should never happen that (rightB <= leftB)": every scan
\* of the partition ended inside the array, to the right of leftB
ScanAlwaysFinds ==
  sorted.ran =>
    /\ ~ sorted.scanLeftArray
    /\ \A i \in DOMAIN sorted.scans : sorted.scans[i][1] < sorted.scans[i][2]

\* the number of particles of the array bufs whose cell the device map gives to device d
\* of this node
Recount(bufs, d) ==
  Cardinality({p \in DOMAIN bufs["BUFFER_HASH"] :
                 LinearDevice(bufs["BUFFER_HASH"][p]) = ThisNodeDevice(d)})

\* the array bufs is in the order of the devices and holds parts[d] particles of each
\* device d of this node
InOrderWithCounts(bufs, parts) ==
  /\ BucketMonotone(bufs, s_hDeviceMap)
  /\ \A d \in Devices(cfg) : Recount(bufs, d) = parts[d]

\* the final pass of the partition, run on the array bufs against the counts parts,
\* prints " --- array OK"
PassReportsOK(bufs, parts) ==
  Verified(cfg, bufs["BUFFER_HASH"], s_hDeviceMap, parts).report = "OK"

\* C16: every run of the partition ends with its verification pass, whose report is OK
\* exactly when the sorted array is in the order of the devices and the particles
\* recounted for each device of this node are as many as s_hPartsPerDevice says.  The pass
\* decides the same of any array and any counts it is run on: of the array as filled, and
\* of counts other than those of the run.
C16_VerificationPass ==
  sorted.ran =>
    /\ ~ sorted.scanLeftArray
    /\ sorted.verified = Verified(cfg, s_hBuffers["BUFFER_HASH"], s_hDeviceMap, s_hPartsPerDevice)
    /\ sorted.verified.report = "OK" <=> InOrderWithCounts(s_hBuffers, s_hPartsPerDevice)
    /\ \A parts \in [Devices(cfg) -> 0 .. MaxParticles] :
         /\ PassReportsOK(s_hBuffers, parts) <=> InOrderWithCounts(s_hBuffers, parts)
         /\ PassReportsOK(sorted.before, parts) <=> InOrderWithCounts(sorted.before, parts)

\* the second node of two has partitioned an array that was out of order, and the pass
\* reports OK
C16_Witness ==
  /\ sorted.ran
  /\ cfg.mpi_rank = 1
  /\ sorted.swaps > 0
  /\ sorted.verified.report = "OK"
  /\ ~ PassReportsOK(sorted.before, s_hPartsPerDevice)
  /\ processParticles[0] > 0
  /\ processParticles[1] > 0

(***************************************************************************)
(* Claims about the bookkeeping of the particle counts                     *)
(* (updateArrayIndices).                                                   *)
(***************************************************************************)

\* initialize() has partitioned the particles among the devices
PartitionDone == pc[Main] # "initialize" /\ cfg.problemInitOk /\ cfg.gridOk

\* the ranges of the devices follow one another from the end of the previous nodes'
\* particles and hold the particles of this node
RangesContiguous ==
  /\ s_hStartPerDevice[0] = SumUpTo(processParticles, cfg.mpi_rank)
  /\ \A d \in Devices(cfg) \ {0} :
       s_hStartPerDevice[d] = s_hStartPerDevice[d - 1] + s_hPartsPerDevice[d - 1]
  /\ SumUpTo(s_hPartsPerDevice, cfg.devices) = processParticles[cfg.mpi_rank]

\* C17: after the initial partition and after every updateArrayIndices the ranges of the
\* devices are contiguous and ordered by device: s_hStartPerDevice[0] is the sum of the
\* processParticles of the nodes of lower rank, s_hStartPerDevice[d] is
\* s_hStartPerDevice[d-1] + s_hPartsPerDevice[d-1] for d >= 1, and the ranges hold
\* processParticles[mpi_rank] particles in all.
C17_RangesContiguous == PartitionDone => RangesContiguous

\* updateArrayIndices has run on the last node after the count of the first node changed
C17_Witness ==
  /\ PartitionDone
  /\ cfg.mpi_rank > 0
  /\ gathered.changes > 0
  /\ s_hStartPerDevice[0] > 0
  /\ s_hStartPerDevice[0] # ThisNodeDevice(0)

\* the orchestrator runs updateArrayIndices (up to its roll call) in this step
UpdateArrayIndicesStep ==
  /\ pc[Main] = "run"
  /\ todo # << >>
  /\ Head(todo) = Host("updateArrayIndices", FALSE)
  /\ todo' # todo

\* C18: updateArrayIndices sets s_hPartsPerDevice[d] to the number of internal particles
\* worker d reports and the count of this node to their sum, whatever these fields held
\* before; with several nodes processParticles then holds the counts the all-gather
\* delivered, this node's being that sum.
C18_CountsFromWorkers ==
  [][UpdateArrayIndicesStep =>
       /\ s_hPartsPerDevice' = [d \in Devices(cfg) |-> numInternalParticles[d]]
       /\ processParticles'[cfg.mpi_rank] = SumUpTo(numInternalParticles, cfg.devices)
       /\ MULTI_NODE(cfg) => processParticles' = gathered'.counts
       /\ SINGLE_NODE(cfg) => gathered' = gathered]_vars

\* the counts of this node and of another one have both changed and have been gathered
C18_Witness ==
  /\ MULTI_NODE(cfg)
  /\ gathered.changes > 0
  /\ processParticles = gathered.counts
  /\ \E d \in Devices(cfg) : s_hPartsPerDevice[d] # Recount(s_hBuffers, d)
  /\ s_hPartsPerDevice = [d \in Devices(cfg) |-> numInternalParticles[d]]

\* updateArrayIndices returns in this step of the orchestrator
UpdateArrayIndicesReturns ==
  /\ pc[Main] = "run"
  /\ todo # << >>
  /\ Head(todo) \in {Host("updateArrayIndices", FALSE), Host("rollCallParticles", FALSE)}
  /\ todo' = Tail(todo)

\* C19, first part: when the total of the counts of all the nodes, as updateArrayIndices
\* has reconciled them, exceeds allocatedParticles, quit_request is set when it returns.
C19_QuitRequested ==
  [][UpdateArrayIndicesReturns /\ NewSimulationTotal(processParticles') > allocatedParticles
       => quit_request']_vars

\* C19, second part: no iteration of the loop begins after the one in which quit_request
\* was set.
C19_LoopEnds ==
  [][quit_request /\ where \in {"body", "save"} => loopsStarted' = loopsStarted]_vars

\* C19: when the reconciled total of the particles exceeds allocatedParticles,
\* updateArrayIndices sets quit_request, and the loop ends no later than the end of the
\* iteration in which this happened.
C19_CapacityExceededQuits == C19_QuitRequested /\ C19_LoopEnds

\* the total of the counts updateArrayIndices has stored differs from totParticles and the
\* run has no open boundaries
UnexplainedChange ==
  ~ cfg.inlet_outlet /\ NewSimulationTotal(processParticles') # totParticles

\* the roll call: the particle ids are dumped from the devices, then rollCallParticles() runs
RollCall == << Cmd("DUMP", {"BUFFER_INFO", "DBLBUFFER_READ"}, NAN), Host("rollCallParticles", FALSE) >>

\* updateArrayIndices makes a roll call in this step
RollCallMade == todo' = RollCall \o Tail(todo)

\* C20 as claimed: a change of the total that open boundaries do not explain is logged by
\* updateArrayIndices (with a roll call in a single-node run) and has no other effect:
\* quit_request is not set, keep_going is not cleared and the orchestrator goes on with
\* the commands that follow.
C20_AnomalyIsDiagnosticOnly ==
  /\ [][UpdateArrayIndicesStep /\ UnexplainedChange =>
          /\ warnings' = warnings + 1
          /\ SINGLE_NODE(cfg) => RollCallMade]_vars
  /\ [][UpdateArrayIndicesReturns /\ UnexplainedChange =>
          /\ quit_request' = quit_request
          /\ keep_going' = keep_going
          /\ pc'[Main] = "run"]_vars

\* C20, amended: on the process of rank 0 a change of the total that open boundaries do
\* not explain is logged if the total grew or the no-leak-warning option was not given,
\* with a roll call in a single-node run; on the other processes it is not noticed.
\* keep_going is never cleared and the orchestrator goes on with the commands that
\* follow; quit_request is set only if the count of this node exceeds allocatedParticles.
C20_AnomalyIsDiagnosticWithinCapacity ==
  /\ [][UpdateArrayIndicesStep /\ UnexplainedChange =>
          LET logged == /\ cfg.mpi_rank = 0
                        /\ \/ NewSimulationTotal(processParticles') > totParticles
                           \/ ~ cfg.no_leak_warning
          IN /\ warnings' = IF logged THEN warnings + 1 ELSE warnings
             /\ RollCallMade <=> logged /\ SINGLE_NODE(cfg)
             /\ ~ RollCallMade => todo' = Tail(todo)]_vars
  /\ [][UpdateArrayIndicesReturns /\ UnexplainedChange =>
          /\ quit_request' =
               (quit_request \/ processParticles'[cfg.mpi_rank] > allocatedParticles)
          /\ keep_going' = keep_going
          /\ pc'[Main] = "run"]_vars

\* a single-node run goes on after a warning and its roll call, quit_request not set
C20_Witness ==
  /\ SINGLE_NODE(cfg)
  /\ ~ cfg.inlet_outlet
  /\ warnings > 0
  /\ totParticles # Cardinality(DOMAIN cfg.hashes)
  /\ ~ quit_request
  /\ keep_going
  /\ pc[Main] = "run"
  /\ todo # << >>
  /\ Head(todo) = Host("only_internal", TRUE)

\* C21: when updateArrayIndices returns, totParticles is the sum of processParticles over
\* all the nodes, whether the total grew, shrank or stayed the same, on every node, with
\* or without open boundaries.
C21_TotalIsSumOfProcesses ==
  [][UpdateArrayIndicesReturns => totParticles' = NewSimulationTotal(processParticles')]_vars

(***************************************************************************)
(* Claims about the end of an iteration of the simulation loop.            *)
(***************************************************************************)

\* the orchestrator ends the body of an iteration in this step: counters, time, timestep
\* and the test for the end of the run
IterationEndStep ==
  /\ pc[Main] = "run"
  /\ where = "body"
  /\ todo = << >>
  /\ iterations' = iterations + 1

\* the loop is over: this iteration is the last, or its exception has been caught
LoopIsOver == (where = "save" /\ we_are_done) \/ pc[Main] = "catch" \/ abort = "caught"

\* C22: if at the end of an iteration the timestep is below FLT_EPSILON, or the time is
\* what it was before the timestep was added, the run is set to end within that
\* iteration (quit_request and we_are_done are set, or DtZeroException is thrown to the
\* catch block of the loop), and no other iteration begins.
C22_DegenerateStepEndsLoop ==
  /\ [][IterationEndStep /\ (dt' < FLT_EPSILON \/ t' = t) =>
          \/ quit_request' /\ we_are_done' /\ where' = "save"
          \/ pc'[Main] = "catch"]_vars
  /\ [][LoopIsOver => loopsStarted' = loopsStarted]_vars

\* a resumed run has ended after one iteration whose timestep, not below FLT_EPSILON, was
\* lost in the sum with the time
C22_Witness ==
  /\ cfg.resumed
  /\ dt >= FLT_EPSILON
  /\ t = cfg.t0
  /\ iterations = cfg.iterations0 + 1
  /\ cfg.maxiter > iterations
  /\ quit_request
  /\ loopsStarted = 1
  /\ pc[Main] = "join"

\* the orchestrator ends an iteration in this step, after the writes: if (we_are_done)
\* gdata->keep_going = false
IterationDoneStep ==
  /\ pc[Main] = "run"
  /\ where = "save"
  /\ todo = << >>
  /\ pc'[Main] = "loop_test"

WriteDecided(flags) == todo' = SaveParticles(cfg, cfg.postprocess, flags)

\* the end of an iteration that does not throw
IterationEndReturns == IterationEndStep /\ pc'[Main] # "catch"

\* the last command posted is the DUMP of saveParticles
LastPostedIsDump == posted # << >> /\ posted[Len(posted)].cmd = "DUMP"

\* C24 as stated: at the end of an iteration a write (saveParticles followed by the
\* writers) is performed whenever a writer is due, or the problem requests a write, or
\* the run is terminating, or save_request is set.
C24_WriteWheneverDue ==
  [][IterationEndReturns
     /\ (cfg.writer_due \/ cfg.problem_write \/ we_are_done' \/ save_request)
     => \E flags \in {NO_FLAGS, ALL_INTEGRATION_STEPS} : WriteDecided(flags)]_vars

\* C24, amended: at the end of an iteration a write with ALL_INTEGRATION_STEPS is
\* performed whenever the problem requests one, or the run is terminating, or
\* save_request is set (and save_request is cleared); when only a writer is due, a
\* write without flags is performed unless the nosave option is set, in which case
\* nothing is written; in every other case nothing is written.  A decided write has been
\* carried out, down to its DUMP, when the iteration ends without an exception.
C24_WriteWhenForcedOrDueAndSaving ==
  /\ [][IterationEndReturns =>
          IF cfg.problem_write \/ we_are_done' \/ save_request
          THEN WriteDecided(ALL_INTEGRATION_STEPS) /\ ~ save_request'
          ELSE IF cfg.writer_due /\ ~ cfg.nosave
               THEN WriteDecided(NO_FLAGS)
               ELSE todo' = << >>]_vars
  /\ [][IterationDoneStep
          /\ (cfg.problem_write \/ we_are_done \/ (cfg.writer_due /\ ~ cfg.nosave))
          => LastPostedIsDump]_vars

\* an iteration that is not the last has written because a save was requested: the
\* request is cleared and the DUMP of the write is the last command posted
C24_Witness ==
  /\ cfg.save_signal
  /\ ~ cfg.writer_due
  /\ pc[Main] = "loop_test"
  /\ where = "save"
  /\ iterations = 1
  /\ ~ we_are_done
  /\ ~ save_request
  /\ LastPostedIsDump
  /\ abort = "none"

\* the commands posted since the current iteration began
PostedThisIteration == {i \in 1 .. Len(posted) : posted[i].loop = loopsStarted}

\* at the end of this iteration no writer is due, the problem requests no write, the run
\* is not terminating and save_request is not set
NothingToWrite ==
  /\ IterationEndReturns
  /\ ~ cfg.writer_due
  /\ ~ cfg.problem_write
  /\ ~ we_are_done'
  /\ ~ save_request

\* posting i is the DUMP of the inspection before the forces (debug.inspect_preforce)
InspectionDump(i) ==
  /\ cfg.inspect_preforce
  /\ posted[i].cmd = "DUMP"
  /\ posted[i].flags = SaveBuffers(cfg)

\* posting i is the DUMP of the particle ids for the roll call of updateArrayIndices
RollCallDump(i) ==
  /\ posted[i].cmd = "DUMP"
  /\ posted[i].flags = {"BUFFER_INFO", "DBLBUFFER_READ"}
  /\ warnings > 0

\* C25 as stated: in an iteration where no writer is due, the problem does not request a
\* write, the run is not terminating and save_request is not set, no POSTPROCESS and no
\* DUMP is posted during that iteration.
C25_NoWriteCommandUnlessDue ==
  [][NothingToWrite =>
       /\ todo' = << >>
       /\ \A i \in PostedThisIteration : posted[i].cmd \notin {"POSTPROCESS", "DUMP"}]_vars

\* C25, amended: in such an iteration saveParticles is not called at the end, no
\* POSTPROCESS is posted, and the only DUMPs posted are those of the inspection before the
\* forces, when debug.inspect_preforce is set, and the one that precedes the roll call
\* when updateArrayIndices has found an unexpected change of the total.
C25_OnlyDiagnosticDumpsUnlessDue ==
  [][NothingToWrite =>
       /\ todo' = << >>
       /\ \A i \in PostedThisIteration :
            /\ posted[i].cmd # "POSTPROCESS"
            /\ posted[i].cmd = "DUMP" => InspectionDump(i) \/ RollCallDump(i)]_vars

\* the first of two iterations has ended with nothing to write, and the inspection has
\* dumped the particles in it
C25_Witness ==
  /\ cfg.inspect_preforce
  /\ ~ cfg.writer_due
  /\ ~ cfg.problem_write
  /\ pc[Main] = "run"
  /\ where = "save"
  /\ todo = << >>
  /\ ~ we_are_done
  /\ loopsStarted = 1
  /\ \E i \in PostedThisIteration : InspectionDump(i)
  /\ abort = "none"

\* the commands of the halo exchange and of the external cells
HaloCommands == {"UPDATE_EXTERNAL", "DUMP_CELLS", "UPDATE_SEGMENTS", "CROP", "APPEND_EXTERNAL"}

\* C26: the commands of the halo exchange and of the external cells (UPDATE_EXTERNAL,
\* DUMP_CELLS, UPDATE_SEGMENTS, CROP, APPEND_EXTERNAL) are posted only in multi-device
\* mode: in a run of one device on one node none of them is ever posted, nor is one ever
\* in the command record, in any phase of the run.
C26_HaloCommandsOnlyMultiDevice ==
  cfg.devices * cfg.mpi_nodes = 1 =>
    /\ nextCommand \notin HaloCommands
    /\ \A i \in 1 .. Len(posted) : posted[i].cmd \notin HaloCommands

\* a single-device run with SA boundaries, open boundaries and the density sum has gone
\* through its initialisation, an iteration and the shutdown
C26_Witness ==
  /\ cfg.devices * cfg.mpi_nodes = 1
  /\ cfg.sa_boundary
  /\ cfg.inlet_outlet
  /\ cfg.density_sum
  /\ loopsStarted = 1
  /\ abort = "none"
  /\ pc[Main] = "join"
  /\ \E i \in 1 .. Len(posted) : posted[i].cmd = "SA_CALC_VERTEX_BOUNDARY_CONDITIONS"

\* the test of the loop lets an iteration begin
EntersIteration == pc[Main] = "loop_test" /\ keep_going /\ pc'[Main] = "run"

\* the commands s begin with those of buildNeibList
StartsWithBuild(s) ==
  /\ Len(s) >= Len(BuildNeibList(cfg))
  /\ SubSeq(s, 1, Len(BuildNeibList(cfg))) = BuildNeibList(cfg)

\* no command of s builds the neighbors list
NoBuildIn(s) ==
  \A i \in 1 .. Len(s) : s[i].k = "cmd" => s[i].cmd \notin {"CALCHASH", "SORT", "BUILDNEIBS"}

\* the orchestrator reads the flags of the devices after DOWNLOAD_NEWNUMPARTS
ReadsParticlesCreated ==
  /\ pc[Main] = "run"
  /\ todo # << >>
  /\ Head(todo).k = "host"
  /\ Head(todo).op = "particlesCreated"
  /\ todo' = Tail(todo)

\* C27: at the start of each iteration buildNeibList runs if and only if the iteration
\* counter is a multiple of buildneibsfreq or particlesCreated is set: the iteration
\* begins with the commands of buildNeibList in that case and has no command of a build
\* otherwise.  When a device reports created particles in an iteration, particlesCreated
\* is set, it stays set until the next iteration begins, and so the list is rebuilt then.
C27_BuildWhenDueOrCreated ==
  /\ [][EntersIteration =>
          IF iterations % cfg.buildneibsfreq = 0 \/ particlesCreated
          THEN StartsWithBuild(todo')
          ELSE NoBuildIn(todo')]_vars
  /\ [][ReadsParticlesCreated /\ (\E d \in Devices(cfg) : particlesCreatedOnNode[d])
          => particlesCreated']_vars
  /\ [][particlesCreated' # particlesCreated => ReadsParticlesCreated]_vars

\* the second iteration of a run that builds every two iterations: particles were created
\* in the first, and the list has been rebuilt in the second
C27_Witness ==
  /\ cfg.buildneibsfreq = 2
  /\ iterations = 1
  /\ loopsStarted = 2
  /\ where = "body"
  /\ particlesCreatedOnNode[0]
  /\ particlesCreated
  /\ \E i \in PostedThisIteration : posted[i].cmd = "BUILDNEIBS"

\* the timesteps the end of an iteration chooses among: those of the devices of this node
\* and, in a multi-node run, the minimum the other nodes contribute to the reduction
CandidateDts ==
  {dts[d] : d \in Devices(cfg)} \cup (IF cfg.mpi_nodes > 1 THEN {netDt'} ELSE {})

\* C28: with the adaptive timestep enabled, the dt chosen at the end of an iteration is
\* the minimum of the timesteps dts[d] of the devices of the node and, in a multi-node
\* run, of the minimum over the other nodes, which is the value every node obtains from
\* the same reduction; with the adaptive timestep disabled dt is left unchanged.
C28_AdaptiveDtIsMinimum ==
  [][IterationEndStep =>
       IF cfg.dtadapt
       THEN dt' \in CandidateDts /\ \A v \in CandidateDts : dt' <= v
       ELSE dt' = dt]_vars

\* an iteration has ended on two devices that asked for different timesteps, the second
\* the smaller, and dt is the smaller
C28_Witness ==
  /\ cfg.dtadapt
  /\ cfg.devices > 1
  /\ where = "save"
  /\ iterations = cfg.iterations0 + 1
  /\ dts[1] < dts[0]
  /\ dt = dts[1]
  /\ dt # cfg.dt

\* the phases of the orchestrator, in their order
Phases ==
  << "UNINITIALIZED", "INITIALIZED", "UPLOADING", "RUNNING", "FINALIZING", "TERMINATED" >>

\* the phase of an orchestrator that stands at l: the phases are those the barriers of
\* initialize() and runSimulation() delimit ("end of INITIALIZATION", "begins UPLOAD", "end
\* of UPLOAD, begins SIMULATION", "end of SIMULATION, begins FINALIZATION", "end of
\* FINALIZATION"); after the first barrier the orchestrator is initialized if the workers
\* left keep_going set, which is what initialize() then stores in its flag
PhaseAt(l, init, kg) ==
  IF l \in {"initialize", "init_barrier"} THEN "UNINITIALIZED"
  ELSE IF l = "init_check" THEN (IF kg THEN "INITIALIZED" ELSE "UNINITIALIZED")
  ELSE IF l \in {"run_entry", "returned_false"}
       THEN (IF init THEN "INITIALIZED" ELSE "UNINITIALIZED")
  ELSE IF l = "upload_barrier1" THEN "INITIALIZED"
  ELSE IF l \in {"set_idle", "upload_barrier2"} THEN "UPLOADING"
  ELSE IF l = "final_barrier" THEN "FINALIZING"
  ELSE IF l \in {"join", "done"} THEN "TERMINATED"
  ELSE "RUNNING"

Phase == PhaseAt(pc[Main], initialized, keep_going)

\* the place of a phase in the order
PhaseRank(ph) == CHOOSE i \in 1 .. Len(Phases) : Phases[i] = ph

\* the barrier whose completion ends the phase ph
BarrierEnding(ph) ==
  CASE ph = "UNINITIALIZED" -> "init_barrier"
    [] ph = "INITIALIZED"   -> "upload_barrier1"
    [] ph = "UPLOADING"     -> "upload_barrier2"
    [] ph = "RUNNING"       -> "quit_barrier2"
    [] ph = "FINALIZING"    -> "final_barrier"
    [] OTHER                -> "none"

\* this step changes the phase of the orchestrator
PhaseChanges == PhaseAt(pc'[Main], initialized', keep_going') # Phase

\* C29: the orchestrator goes through the phases UNINITIALIZED, INITIALIZED, UPLOADING,
\* RUNNING, FINALIZING, TERMINATED only in this order: a step that changes the phase
\* moves to the next phase, never to an earlier one and never past one.  Each change is
\* the return of the orchestrator from the barrier that ends the phase (the one at the
\* end of the initialisation, the two around the upload, the second after QUIT, the last),
\* and unless the catch of the loop has forced the synchronizer open, that return is the
\* completion of the barrier by every thread, which leaves no thread waiting in it.
C29_PhasesInOrderAtBarriers ==
  /\ [][PhaseChanges =>
          PhaseRank(PhaseAt(pc'[Main], initialized', keep_going')) = PhaseRank(Phase) + 1]_vars
  /\ [][PhaseChanges =>
          /\ pc[Main] = BarrierEnding(Phase)
          /\ pc'[Main] = OrchestratorAfterBarrier(pc[Main])
          /\ unlocked \/ (waiting' = {} /\ \A w \in Workers(cfg) : pc'[w] # pc[w])]_vars

\* a run of two iterations has gone through every phase and the workers have been joined
C29_Witness ==
  /\ Phase = "TERMINATED"
  /\ pc[Main] = "done"
  /\ loopsStarted = 2
  /\ abort = "none"
  /\ ~ unlocked

\* how many of the n particles of the last roll call had the identity id
TimesCalled(id) == Cardinality({i \in 0 .. rollCall.n - 1 : rollCall.ids[i] = id})

\* every identity in [0, n) appeared exactly once at the last roll call
EveryIdOnce == \A id \in 0 .. rollCall.n - 1 : TimesCalled(id) = 1

\* a roll call has been made, within the room of its arrays
RollCalled == rollCall.calls > 0 /\ rollCall.inside

NoEngineThrown ==
  /\ pc[Main] = "run"
  /\ todo # << >>
  /\ Head(todo) = Host("throw", "no boundary conditions engine loaded")
  /\ pc'[Main] # "run"

\* C31: when SA boundary conditions are required and no boundary-conditions engine is
\* loaded, saBoundaryConditions raises its error before it posts any command, and the run
\* ends with keep_going false and the loop unwound: the error reaches the catch of the
\* loop, and once it has been raised and handled keep_going is false.
C31_NoEngineEndsRun ==
  /\ [][NoEngineThrown => posted' = posted /\ pc'[Main] = "catch"]_vars
  /\ [](cfg.sa_boundary /\ ~ cfg.bcEngine /\ abort # "none" => ~ keep_going)

\* the commands that start the forces computation of an integrator step
ForcesCommands == {"FORCES_SYNC", "FORCES_ENQUEUE"}

\* this step posts a command that starts a forces computation
PostsForces ==
  /\ Len(posted') = Len(posted) + 1
  /\ posted'[Len(posted')].cmd \in ForcesCommands

\* C32: whenever a forces command (FORCES_SYNC or FORCES_ENQUEUE) is posted, only_internal
\* is true, in both integrator steps and whatever was issued before it in the iteration
\* (filters, density, SPS, the save of the inspection); it stays true while the workers
\* execute the command.
C32_ForcesOnInternalOnly ==
  /\ [][PostsForces => only_internal /\ only_internal']_vars
  /\ [](nextCommand \in ForcesCommands /\ (\E w \in Workers(cfg) : pc[w] = "w_exec")
          => only_internal)

\* the forces of the second step are being executed in a run that inspects the particles
\* before the forces, after the EULER of the first step had cleared only_internal
C32_Witness ==
  /\ cfg.inspect_preforce
  /\ ~ cfg.density_sum
  /\ nextCommand = "FORCES_SYNC"
  /\ commandFlags = INTEGRATOR_STEP_2
  /\ \E w \in Workers(cfg) : pc[w] = "w_exec"
  /\ \E i \in PostedThisIteration : posted[i].cmd = "EULER"
  /\ only_internal

\* the forces are computed with striping
Striped == cfg.striping /\ MULTI_DEVICE(cfg)

\* the posted command i was issued by doCommand with the flag of the given integrator step
\* (the QUIT that ends the run is stored without touching the flags of the last command)
OfStep(i, stepFlag) ==
  /\ posted[i].via = "doCommand"
  /\ stepFlag \subseteq posted[i].flags

\* the posted command i is the QUIT of a run whose loop was left by a failure
QuitAfterFailure(i) ==
  /\ posted[i].cmd = "QUIT"
  /\ abort # "none"

\* the posted command i is the update of the forces of the external particles
IsForcesUpdate(i) ==
  /\ posted[i].cmd = "UPDATE_EXTERNAL"
  /\ posted[i].flags = {"POST_FORCES_UPDATE_BUFFERS", "DBLBUFFER_WRITE"}

\* the forces commands posted for command i, an EULER: the last forces command before it
\* belongs to the same iteration and the same step
ForcesBeforeEuler(i) ==
  \E j \in 1 .. i - 1 :
    /\ posted[j].cmd = (IF Striped THEN "FORCES_COMPLETE" ELSE "FORCES_SYNC")
    /\ posted[j].flags = posted[i].flags
    /\ posted[j].loop = posted[i].loop
    /\ \A k \in j + 1 .. i - 1 :
         posted[k].cmd \notin {"FORCES_SYNC", "FORCES_ENQUEUE", "FORCES_COMPLETE", "EULER"}

\* the commands posted so far keep the order of the forces computation
ForcesInOrder ==
  \A i \in 1 .. Len(posted) :
    /\ posted[i].cmd = "FORCES_ENQUEUE"
         => /\ Striped
            /\ i + 1 <= Len(posted) => IsForcesUpdate(i + 1) \/ QuitAfterFailure(i + 1)
            /\ i + 2 <= Len(posted) /\ IsForcesUpdate(i + 1)
                 => \/ /\ posted[i + 2].cmd = "FORCES_COMPLETE"
                       /\ posted[i + 2].flags = posted[i].flags
                    \/ QuitAfterFailure(i + 2)
    /\ posted[i].cmd = "FORCES_COMPLETE"
         => /\ i > 2
            /\ posted[i - 2].cmd = "FORCES_ENQUEUE"
            /\ posted[i - 2].flags = posted[i].flags
    /\ posted[i].cmd = "FORCES_SYNC" => ~ Striped
    /\ posted[i].cmd \in {"FORCES_SYNC", "FORCES_ENQUEUE", "FORCES_COMPLETE", "EULER"}
         => posted[i].flags \in {INTEGRATOR_STEP_1, INTEGRATOR_STEP_2}
    /\ posted[i].cmd = "EULER" => ForcesBeforeEuler(i)

\* this step posts a command of the first integrator step
PostsOfStep1 ==
  /\ Len(posted') = Len(posted) + 1
  /\ posted'[Len(posted')].via = "doCommand"
  /\ INTEGRATOR_STEP_1 \subseteq posted'[Len(posted')].flags

\* C33: in each integrator step, with striping and more than one device, FORCES_ENQUEUE is
\* followed by UPDATE_EXTERNAL and then by FORCES_COMPLETE with the same step flag before
\* the EULER of the step; otherwise FORCES_SYNC is posted and neither FORCES_ENQUEUE nor
\* FORCES_COMPLETE appears; every command of step 1 precedes every command of step 2 of
\* the same iteration.
C33_ForcesSequenceInEachStep ==
  /\ [] ForcesInOrder
  /\ [][PostsOfStep1 =>
          \A i \in 1 .. Len(posted) :
            posted[i].loop = posted'[Len(posted')].loop => ~ OfStep(i, INTEGRATOR_STEP_2)]_vars

\* a striped run has posted the EULER of the second step after both forces computations
C33_Witness ==
  /\ Striped
  /\ \E i, j \in PostedThisIteration :
       /\ i < j
       /\ posted[i].cmd = "FORCES_COMPLETE" /\ OfStep(i, INTEGRATOR_STEP_1)
       /\ posted[j].cmd = "EULER" /\ OfStep(j, INTEGRATOR_STEP_2)

\* the write at the end of this iteration is forced: asked by the problem, by the end of
\* the run or by a save request
ForcedWrite == cfg.problem_write \/ we_are_done' \/ save_request

\* the last command posted is the swap that ends the second integrator step
LastPostedEndsStep2 ==
  /\ posted # << >>
  /\ posted[Len(posted)].cmd = "SWAP_BUFFERS"
  /\ posted[Len(posted)].flags = {"POST_COMPUTE_SWAP_BUFFERS"}

\* C34: with the nosave option set, a write that is due only by a writer's schedule is
\* suppressed: no command of a write is posted and the due writers are marked as written
\* at time t; a forced write (problem request, termination, save request) is still
\* performed with nosave set, and marks the writers by writing.
C34_NosaveSuppressesUnforcedWrite ==
  /\ [][IterationEndReturns /\ cfg.nosave =>
          IF ForcedWrite
          THEN WriteDecided(ALL_INTEGRATION_STEPS) /\ writersMarked' = writersMarked
          ELSE /\ todo' = << >>
               /\ writersMarked' = IF cfg.writer_due
                                   THEN writersMarked \cup {FakeMarkWritten(t')}
                                   ELSE writersMarked]_vars
  /\ [][IterationDoneStep /\ cfg.nosave =>
          IF cfg.problem_write \/ we_are_done \/ saveHistory.cleared = loopsStarted
          THEN LastPostedIsDump /\ MarkWritten(t) \in writersMarked
          ELSE LastPostedEndsStep2 /\ MarkWritten(t) \notin writersMarked]_vars

\* a run with nosave and a writer due at every time: the write of the first iteration was
\* suppressed and its writers marked, the write of the last iteration was forced and made
C34_Witness ==
  /\ cfg.nosave
  /\ cfg.writer_due
  /\ ~ cfg.problem_write
  /\ pc[Main] = "loop_test"
  /\ we_are_done
  /\ \E time \in 0 .. t - 1 :
       /\ FakeMarkWritten(time) \in writersMarked
       /\ MarkWritten(time) \notin writersMarked
  /\ MarkWritten(t) \in writersMarked
  /\ FakeMarkWritten(t) \notin writersMarked
  /\ LastPostedIsDump

\* Claims about the requests to save, the nodes and the initialisation.

\* save_request is cleared, or a request that arrives while the end of the iteration
\* decides to write is cleared at once
SaveRequestCleared == saveHistory'.cleared # saveHistory.cleared \/ (save_request /\ ~ save_request')

\* the iteration at whose end a request to save is read for the first time: the current
\* one when the request arrives in its body, the next one otherwise
FirstReadIn ==
  IF saveHistory.phase = "body" THEN saveHistory.loop ELSE saveHistory.loop + 1

\* C38: a save request is never lost: if save_request is set at any moment and the loop
\* does not fail, a saveParticles is performed at the end of the current or of the next
\* iteration, and save_request is cleared only in an iteration that performs that write.
\* (A request that arrives after the last iteration has read save_request finds that
\* iteration's write, the last of the run, made.)
C38_SaveRequestServed ==
  /\ [][SaveRequestCleared =>
          /\ IterationEndReturns
          /\ WriteDecided(ALL_INTEGRATION_STEPS)
          /\ ~ save_request'
          /\ saveHistory'.cleared = loopsStarted]_vars
  /\ [][IterationEndReturns /\ save_request => SaveRequestCleared]_vars
  /\ [][IterationDoneStep /\ saveHistory.cleared = loopsStarted =>
          LastPostedIsDump /\ MarkWritten(t) \in writersMarked]_vars
  /\ [](saveHistory.made /\ abort = "none" /\ pc[Main] = "loop_test" =>
          IF loopsStarted >= FirstReadIn
          THEN /\ ~ save_request
               /\ saveHistory.cleared \in {saveHistory.loop, saveHistory.loop + 1} \ {0}
          ELSE keep_going \/ LastPostedIsDump)
  /\ [](save_request => saveHistory.made /\ saveHistory.cleared = 0)

\* a request that arrived while the first iteration was writing was served by a write at
\* the end of the second iteration, under nosave
C38_Witness ==
  /\ saveHistory.made
  /\ saveHistory.phase = "save"
  /\ saveHistory.loop = 1
  /\ saveHistory.cleared = 2
  /\ pc[Main] = "loop_test"
  /\ abort = "none"
  /\ LastPostedIsDump
  /\ ~ save_request

\* doCommand finds keep_going cleared by a worker while the commands before the loop are
\* being issued, and throws
FailureBeforeLoop ==
  /\ pc[Main] = "dc_check"
  /\ where = "pre"
  /\ DoCommandThrows(keep_going)
  /\ pc'[Main] # "dc_check"

\* C35: a failure signalled while issuing the commands that precede the loop in
\* runSimulation (the first neighbor-list build and the SA boundary initialisation) also
\* ends in the catch block, with keep_going cleared and forceUnlock called, so that no
\* worker is left blocked at a barrier.
C35_FailureBeforeLoopUnlocks ==
  /\ [][FailureBeforeLoop => pc'[Main] = "catch"]_vars
  /\ [](pc[Main] = "uncaught" /\ ~ keep_going => unlocked /\ waiting = {})

\* the keys the partition was given are devices of the simulation
KeysBelowTotDevices ==
  LET keys == ParticleKeys(sorted.before["BUFFER_HASH"], s_hDeviceMap)
  IN \A p \in DOMAIN keys : GLOBAL_DEVICE_NUM(cfg, keys[p]) \in 0 .. TotDevices(cfg) - 1

\* C36: in sortParticlesByHash, for every input whose keys are device numbers below
\* totDevices, the right cursor stays inside the array and strictly to the right of the
\* left cursor whenever a swap is performed, and the particle it points to at the swap
\* belongs to the current bucket; the right cursor never moves below the left cursor
\* (each scan ends at or below the index it began at, above leftB).
C36_RightCursorInBucket ==
  sorted.ran /\ KeysBelowTotDevices =>
    /\ ~ sorted.scanLeftArray
    /\ Len(sorted.scans) = sorted.swaps
    /\ \A i \in DOMAIN sorted.scans :
         LET leftB == sorted.scans[i][1]
             rightB == sorted.scans[i][2]
             currentGlobalDevice == sorted.scans[i][3]
             found == sorted.scans[i][4]
             began == sorted.scans[i][5]
         IN /\ rightB \in 0 .. Cardinality(DOMAIN sorted.keys) - 1
            /\ leftB < rightB
            /\ rightB <= began
            /\ found = currentGlobalDevice
            /\ currentGlobalDevice < TotDevices(cfg) - 1
            /\ GLOBAL_DEVICE_NUM(cfg, sorted.keys[leftB]) = currentGlobalDevice

\* a partition on two nodes in which a second scan of a bucket went on from where the
\* first had ended, and had to pass over the particle the first swap had put there
C36_Witness ==
  /\ sorted.ran
  /\ MULTI_NODE(cfg)
  /\ \E i, j \in DOMAIN sorted.scans :
       /\ i < j
       /\ sorted.scans[i][3] = sorted.scans[j][3]
       /\ sorted.scans[j][5] = sorted.scans[i][2]
       /\ sorted.scans[j][2] < sorted.scans[j][5]

\* C37: in every run, including a run resumed from a checkpoint with a non-zero iteration
\* counter and without SA boundaries, at least one buildNeibList has completed (its
\* BUILDNEIBS command has been posted) before the first forces command is posted.
C37_NeibListBeforeForces ==
  \A i \in 1 .. Len(posted) :
    posted[i].cmd \in ForcesCommands => \E j \in 1 .. i - 1 : posted[j].cmd = "BUILDNEIBS"

\* we_are_done as computed at the end of this iteration by another node of the run on
\* which nothing has requested a quit locally: the counter, the time and the timestep are
\* the same on every node (same start, same dt or the network minimum), quit_request is not
\* exchanged between the nodes
PeerWeAreDone ==
  WeAreDone(cfg, iterations', t', dt' < FLT_EPSILON \/ t' = t)

\* C39: in a multi-node run all node processes leave the simulation loop in the same
\* iteration, so that no node waits in a network reduction or all-gather for a node that
\* has already quit (for example after a capacity overflow or a quit request on one node
\* only): this node decides to leave at the end of an iteration exactly when the others do.
C39_NodesLeaveTogether ==
  [][IterationEndReturns /\ MULTI_NODE(cfg) => (we_are_done' <=> PeerWeAreDone)]_vars

\* the places of the orchestrator inside runSimulation past its first test
InRunSimulation ==
  pc[Main] \notin {"initialize", "init_barrier", "init_check", "run_entry", "returned_false"}

\* runSimulation is entered after an initialize() that failed
EntersUninitialized == pc[Main] = "run_entry" /\ ~ initialized /\ pc'[Main] # "run_entry"

\* C40: runSimulation posts no command and calls no barrier unless initialize completed
\* successfully: if the problem initialisation fails, the grid has too many cells, or a
\* worker clears keep_going during the initialisation, initialize returns false and leaves
\* initialized false, and runSimulation then returns false at once.
C40_NothingRunsUninitialized ==
  /\ [](pc[Main] \in {"run_entry", "returned_false"}
        /\ (~ cfg.problemInitOk \/ ~ cfg.gridOk \/ ~ keep_going) => ~ initialized)
  /\ [][pc[Main] = "init_check" /\ pc'[Main] # "init_check" =>
          initialized' = keep_going /\ pc'[Main] = "run_entry"]_vars
  /\ [][EntersUninitialized =>
          /\ pc'[Main] = "returned_false"
          /\ posted' = posted
          /\ writersMarked' = writersMarked
          /\ Main \notin waiting']_vars
  /\ [](pc[Main] = "returned_false" =>
          /\ posted = << >>
          /\ writersMarked = {}
          /\ Main \notin waiting
          /\ todo = << >>)
  /\ [](posted # << >> \/ InRunSimulation => initialized)

\* a worker cleared keep_going while it was initialising: initialize returned false after
\* its barrier and runSimulation has returned false
C40_Witness ==
  /\ cfg.problemInitOk
  /\ cfg.gridOk
  /\ ~ keep_going
  /\ ~ initialized
  /\ pc[Main] = "returned_false"
  /\ posted = << >>

=============================================================================
